---- MODULE Spec2Model ----
(***************************************************************************)
(* The MESSy coupler of t8code (src/src/t8_messy/t8_messy_coupler.cxx):    *)
(* a chunk of tracer data on a quad forest, reordered along the Morton     *)
(* curve and coarsened by rounds of adapt + interpolate.                   *)
(*                                                                         *)
(* Doubles are modelled as exact rationals n/d extended by the IEEE        *)
(* specials NaN, +Inf and -Inf; the two signed zeros are one value (no     *)
(* divisor of the modelled code can be -0).  Rounding is not modelled.     *)
(* LONG_MIN and LONG_MAX, the start values of get_max and get_min, are     *)
(* kept symbolic: below and above every finite value of the model.         *)
(***************************************************************************)
EXTENDS Integers, Sequences, FiniteSets, TLC

(***************************************************************************)
(* Bounds of the model.                                                    *)
(***************************************************************************)
MaxLevel == 2
MaxZ == 2
MaxTracers == 3
MaxCoarsens == 2

(***************************************************************************)
(* Program constants.                                                      *)
(***************************************************************************)
MaxRounds == 10
TolNum == 1
TolDen == 10

(***************************************************************************)
(* double                                                                  *)
(***************************************************************************)
RECURSIVE GCD(_, _)
GCD(a, b) == IF b = 0 THEN a ELSE GCD(b, a % b)

Abs(i) == IF i < 0 THEN -i ELSE i

Norm(n, d) ==
  LET s == IF d < 0 THEN -1 ELSE 1
      g == GCD(Abs(n), Abs(d))
  IN  [k |-> "fin", n |-> (s * n) \div g, d |-> (s * d) \div g]

Int2D(i) == [k |-> "fin", n |-> i, d |-> 1]
Rat(n, d) == Norm(n, d)
NaN == [k |-> "nan", n |-> 0, d |-> 0]
PInf == [k |-> "inf", n |-> 1, d |-> 0]
NInf == [k |-> "inf", n |-> -1, d |-> 0]
LONG_MIN == [k |-> "long", n |-> -1, d |-> 0]
LONG_MAX == [k |-> "long", n |-> 1, d |-> 0]
Zero == Int2D(0)

IsNaN(x) == x.k = "nan"
IsFin(x) == x.k = "fin"
IsInf(x) == x.k = "inf"
IsLong(x) == x.k = "long"
IsZero(x) == x.k = "fin" /\ x.n = 0
Sgn(x) == IF x.n < 0 THEN -1 ELSE IF x.n > 0 THEN 1 ELSE 0
InfOf(s) == IF s < 0 THEN NInf ELSE PInf

\* position of a non-NaN value on the extended line: -Inf < LONG_MIN < finite < LONG_MAX < +Inf
Rank(x) == IF x.k = "fin" THEN 0 ELSE IF x.k = "long" THEN x.n ELSE 2 * x.n

\* x < y, x > y, x == y of C: false as soon as one side is NaN
Lt(x, y) ==
  /\ ~IsNaN(x)
  /\ ~IsNaN(y)
  /\ \/ Rank(x) < Rank(y)
     \/ IsFin(x) /\ IsFin(y) /\ x.n * y.d < y.n * x.d
Gt(x, y) == Lt(y, x)
Eq(x, y) == ~IsNaN(x) /\ ~IsNaN(y) /\ x = y
Ge(x, y) == Gt(x, y) \/ Eq(x, y)
Le(x, y) == Lt(x, y) \/ Eq(x, y)

Neg(x) == IF IsFin(x) THEN [x EXCEPT !.n = -x.n]
          ELSE IF IsInf(x) THEN InfOf(-x.n) ELSE x

\* a finite value of the model is less than half an ulp of 2^63: adding it to
\* LONG_MIN or LONG_MAX gives LONG_MIN or LONG_MAX again
Add(x, y) ==
  CASE IsNaN(x) \/ IsNaN(y) -> NaN
    [] IsInf(x) /\ IsInf(y) -> IF x = y THEN x ELSE NaN
    [] IsInf(x) /\ ~IsInf(y) -> x
    [] ~IsInf(x) /\ IsInf(y) -> y
    [] IsLong(x) /\ IsFin(y) -> x
    [] IsFin(x) /\ IsLong(y) -> y
    [] IsFin(x) /\ IsFin(y) -> Norm(x.n * y.d + y.n * x.d, x.d * y.d)

Sub(x, y) == Add(x, Neg(y))

Mul(x, y) ==
  CASE IsNaN(x) \/ IsNaN(y) -> NaN
    [] IsInf(x) /\ IsInf(y) -> InfOf(x.n * y.n)
    [] IsInf(x) /\ IsFin(y) -> IF y.n = 0 THEN NaN ELSE InfOf(x.n * Sgn(y))
    [] IsFin(x) /\ IsInf(y) -> IF x.n = 0 THEN NaN ELSE InfOf(Sgn(x) * y.n)
    [] IsFin(x) /\ IsFin(y) -> Norm(x.n * y.n, x.d * y.d)

\* a zero divisor is +0 in every division of the modelled code
Div(x, y) ==
  CASE IsNaN(x) \/ IsNaN(y) -> NaN
    [] IsInf(x) /\ IsInf(y) -> NaN
    [] IsInf(x) /\ IsFin(y) -> InfOf(x.n * (IF y.n < 0 THEN -1 ELSE 1))
    [] IsFin(x) /\ IsInf(y) -> Zero
    [] IsFin(x) /\ IsFin(y) ->
         IF y.n = 0 THEN (IF x.n = 0 THEN NaN ELSE InfOf(Sgn(x)))
         ELSE Norm(x.n * y.d, x.d * y.n)

fabs(x) == IF IsFin(x) THEN [x EXCEPT !.n = Abs(x.n)]
           ELSE IF IsInf(x) THEN PInf ELSE x

\* fmax, fmin of C99: a NaN argument is treated as missing data
fmax(x, y) == IF IsNaN(x) THEN y ELSE IF IsNaN(y) THEN x
              ELSE IF Lt(x, y) THEN y ELSE x
fmin(x, y) == IF IsNaN(x) THEN y ELSE IF IsNaN(y) THEN x
              ELSE IF Lt(y, x) THEN y ELSE x

(***************************************************************************)
(* Array helpers of the coupler.  A C array of n doubles is a function on  *)
(* 0..n-1.                                                                 *)
(***************************************************************************)
Zeros(n) == [i \in 0..(n - 1) |-> Zero]
NULL == <<>>

RECURSIVE get_mean_sum(_, _)
get_mean_sum(values, n) ==
  IF n = 0 THEN Zero ELSE Add(get_mean_sum(values, n - 1), values[n - 1])

get_mean(values, num_elements) ==
  Div(get_mean_sum(values, num_elements), Int2D(num_elements))

RECURSIVE get_max(_, _)
get_max(values, num_elements) ==
  IF num_elements = 0 THEN LONG_MIN
  ELSE fmax(get_max(values, num_elements - 1), values[num_elements - 1])

RECURSIVE get_min(_, _)
get_min(values, num_elements) ==
  IF num_elements = 0 THEN LONG_MAX
  ELSE fmin(get_min(values, num_elements - 1), values[num_elements - 1])

get_values(first, num_elements, element_length, tracer, data) ==
  [i \in 0..(num_elements - 1) |-> data[first + i * element_length + tracer]]

RECURSIVE mult_sum(_, _, _, _)
mult_sum(num_elements, a, b, missing) ==
  IF num_elements = 0 THEN Zero
  ELSE LET i == num_elements - 1
           s == mult_sum(i, a, b, missing)
       IN  IF Eq(a[i], missing) /\ Eq(b[i], missing) THEN s
           ELSE Add(s, Mul(a[i], b[i]))

\* sum without the test for the missing value
RECURSIVE sum_all(_, _, _)
sum_all(num_elements, a, missing) ==
  IF num_elements = 0 THEN Zero
  ELSE Add(sum_all(num_elements - 1, a, missing), a[num_elements - 1])

RECURSIVE sum(_, _, _)
sum(num_elements, a, missing) ==
  IF num_elements = 0 THEN Zero
  ELSE LET i == num_elements - 1
           s == sum(i, a, missing)
       IN  IF Eq(a[i], missing) THEN s ELSE Add(s, a[i])

calculate_error_ratios(num_elements, values, value, missing) ==
  [i \in 0..(num_elements - 1) |->
     IF Eq(values[i], missing) \/ Eq(values[i], Zero) THEN Zero
     ELSE Div(fabs(Sub(values[i], value)), values[i])]

(***************************************************************************)
(* State.                                                                  *)
(* chunk (t8_latlon_data_chunk_t): x_length .. data_ids_adapt, shape and    *)
(* the axis slots x_axis, y_axis, z_axis.                                  *)
(* coupler (t8_messy_data_t): md_forest (its forest handle), coarsen,      *)
(* interpolation, errors .. errors_adapt_global, md_num_elements, counter. *)
(* t8_messy_coarsen: its locals forest, forest_adapt, last_num_elements,   *)
(* num_elements, r and its position pc.                                    *)
(* heap: the forest objects, each with its leaves and reference count; a   *)
(* forest handle is an index into heap, 0 is the null handle.              *)
(* call: the arguments and the result of the last t8_messy_set_tracer_     *)
(* values or t8_messy_write_tracer_values.                                 *)
(***************************************************************************)
VARIABLES x_length, y_length, z_length, num_tracers, missing_value, max_level,
          numbering, data, data_ids, data_adapt, data_ids_adapt,
          md_forest, coarsen, interpolation,
          errors, errors_adapt, errors_global, errors_adapt_global,
          md_num_elements, counter,
          forest, forest_adapt, last_num_elements, num_elements, r, pc,
          heap, tracer_names, shape, x_axis, y_axis, z_axis, call

chunk_vars == <<x_length, y_length, z_length, num_tracers, missing_value,
                max_level, coarsen, interpolation, tracer_names,
                shape, x_axis, y_axis, z_axis>>
io_vars == <<call>>
vars == <<x_length, y_length, z_length, num_tracers, missing_value, max_level,
          numbering, data, data_ids, data_adapt, data_ids_adapt,
          md_forest, coarsen, interpolation,
          errors, errors_adapt, errors_global, errors_adapt_global,
          md_num_elements, counter,
          forest, forest_adapt, last_num_elements, num_elements, r, pc,
          heap, tracer_names, shape, x_axis, y_axis, z_axis, call>>

(***************************************************************************)
(* The quad forest.  A leaf is [level, id]: its refinement level and the   *)
(* Morton index, at level max_level, of its first descendant.  The leaves  *)
(* of a forest are kept in Morton order.                                   *)
(***************************************************************************)
RECURSIVE Pow4(_)
Pow4(l) == IF l = 0 THEN 1 ELSE 4 * Pow4(l - 1)

RECURSIVE Pow2(_)
Pow2(l) == IF l = 0 THEN 1 ELSE 2 * Pow2(l - 1)

\* the uniform forest of level L
UniformLeaves(L) == [j \in 1..Pow4(L) |-> [level |-> L, id |-> j - 1]]

\* anchor coordinates of the cell with Morton index m: x on the even bits, y on the odd bits
RECURSIVE MortonX(_)
MortonX(m) == IF m = 0 THEN 0 ELSE (m % 2) + 2 * MortonX(m \div 4)
MortonY(m) == MortonX(m \div 2)

\* leaves j .. j+3 of ls are the four children of one parent
IsFamily(ls, j, L) ==
  /\ j + 3 <= Len(ls)
  /\ ls[j].level >= 1
  /\ ls[j].id % Pow4(L - ls[j].level + 1) = 0
  /\ \A k \in 1..3 : /\ ls[j + k].level = ls[j].level
                     /\ ls[j + k].id = ls[j].id + k * Pow4(L - ls[j].level)

ParentLeaf(lf) == [level |-> lf.level - 1, id |-> lf.id]
ChildLeaves(lf, L) ==
  [k \in 1..4 |-> [level |-> lf.level + 1, id |-> lf.id + (k - 1) * Pow4(L - lf.level - 1)]]

t8_forest_get_num_element(h) == Len(heap[h].leaves)

(***************************************************************************)
(* The coarsen predicates.                                                 *)
(***************************************************************************)
\* a tolerance of 1 in place of 0.10
Tolerance_loose == Int2D(1)

Tolerance == Rat(TolNum, TolDen)

\* mass-weighted value of tracer d in layer z of the n records from index start
interpolated_value(dat, start, z, d, n) ==
  LET element_length == z_length * num_tracers
      z_offset == z * num_tracers
      mass_index == num_tracers - 1
      mass == get_values(start + z_offset, n, element_length, mass_index, dat)
      total_mass == sum(n, mass, missing_value)
      values == get_values(start + z_offset, n, element_length, d, dat)
  IN  Div(mult_sum(n, values, mass, missing_value), total_mass)

\* largest error ratio of tracer d in layer z when the records are replaced by value
max_error_ratio(dat, start, z, d, n, value) ==
  LET element_length == z_length * num_tracers
      values == get_values(start + z * num_tracers, n, element_length, d, dat)
  IN  get_max(calculate_error_ratios(n, values, value, missing_value),
              n)

\* a lone element answered with "refine"
single_element_refine(n) == 1

\* lines 165-171: the answer for a group of one element
single_element(n) == 0

t8_messy_coarsen_by_error_tol_callback(dat, lelement_id, n) ==
  IF n = 1 THEN single_element(n)
  ELSE LET start == lelement_id * z_length * num_tracers
       IN  IF \E z \in 0..(z_length - 1), d \in 0..(num_tracers - 2) :
                 Gt(max_error_ratio(dat, start, z, d, n,
                                    interpolated_value(dat, start, z, d, n)),
                    Tolerance)
           THEN 0
           ELSE -1

ThresholdMethods ==
  {"MIN_LOWER", "MIN_HIGHER", "MAX_LOWER", "MAX_HIGHER", "MEAN_LOWER", "MEAN_HIGHER"}

\* linear scan of the registered names; -1 when the name is not registered
t8_latlon_get_tracer_idx(names, name) ==
  IF \E i \in 1..Len(names) : names[i] = name
  THEN (CHOOSE i \in 1..Len(names) :
          names[i] = name /\ \A j \in 1..(i - 1) : names[j] # name) - 1
  ELSE -1

\* lines 256-294: the values the threshold test reduces, one per sibling
coarsen_values(dat, names, lelement_id, n) ==
  LET element_length == z_length * num_tracers
      z_offset == coarsen.z_layer * num_tracers
      start == lelement_id * z_length * num_tracers
      tracer == t8_latlon_get_tracer_idx(names, coarsen.tracer)
      temps == get_values(start, z_length, num_tracers, tracer, dat)
  IN  IF coarsen.z_layer < 0
      THEN [e \in 0..(n - 1) |->
              CASE coarsen.z_layer = -1 -> get_mean(temps, z_length)
                [] coarsen.z_layer = -2 -> get_max(temps, z_length)
                [] coarsen.z_layer = -3 -> get_min(temps, z_length)]
      ELSE get_values(start + z_offset, n, element_length, tracer, dat)

t8_messy_coarsen_callback(dat, names, lelement_id, n) ==
  IF n = 1 THEN 0
  ELSE LET values == coarsen_values(dat, names, lelement_id, n)
           m == coarsen.method
           yes(b) == IF b THEN -1 ELSE 0
       IN  CASE m = "MIN_LOWER" -> yes(Lt(get_min(values, n), coarsen.threshold))
             [] m = "MIN_HIGHER" -> yes(Gt(get_min(values, n), coarsen.threshold))
             [] m = "MAX_LOWER" -> yes(Lt(get_max(values, n), coarsen.threshold))
             [] m = "MAX_HIGHER" -> yes(Gt(get_max(values, n), coarsen.threshold))
             [] m = "MEAN_LOWER" -> yes(Lt(get_mean(values, n), coarsen.threshold))
             [] m = "MEAN_HIGHER" -> yes(Gt(get_mean(values, n), coarsen.threshold))
             [] OTHER -> 0

(***************************************************************************)
(* t8_forest_new_adapt, not recursive: the groups of the adapted forest in *)
(* Morton order.  A family of four leaves is offered to the predicate as   *)
(* one group, any other leaf alone; a negative answer to a family replaces *)
(* it by its parent, a positive answer replaces the first leaf by its four *)
(* children, 0 keeps the first leaf.  A group is [first, num, leaves]: the *)
(* index of its first outgoing leaf, the number of outgoing leaves and the *)
(* incoming leaves.                                                        *)
(***************************************************************************)
RECURSIVE t8_forest_adapt(_, _, _)
t8_forest_adapt(ls, dat, j) ==
  IF j > Len(ls) THEN <<>>
  ELSE LET fam == IsFamily(ls, j, max_level)
           n == IF fam THEN 4 ELSE 1
           ret == t8_messy_coarsen_by_error_tol_callback(dat, j - 1, n)
       IN  IF ret < 0 /\ fam
           THEN <<[first |-> j - 1, num |-> 4, leaves |-> <<ParentLeaf(ls[j])>>]>>
                \o t8_forest_adapt(ls, dat, j + 4)
           ELSE IF ret > 0 /\ ls[j].level < max_level
           THEN <<[first |-> j - 1, num |-> 1, leaves |-> ChildLeaves(ls[j], max_level)]>>
                \o t8_forest_adapt(ls, dat, j + 1)
           ELSE <<[first |-> j - 1, num |-> 1, leaves |-> <<ls[j]>>]>>
                \o t8_forest_adapt(ls, dat, j + 1)

RECURSIVE GroupLeaves(_)
GroupLeaves(gs) == IF gs = <<>> THEN <<>> ELSE Head(gs).leaves \o GroupLeaves(Tail(gs))

\* the leaves of the forest adapted from ls
t8_forest_new_adapt(ls, dat) == GroupLeaves(t8_forest_adapt(ls, dat, 1))

(***************************************************************************)
(* The interpolation callback of coarsen.  b holds the adapt buffers       *)
(* data_adapt, errors_adapt, errors_adapt_global; dat, err, errg are the   *)
(* old data, errors and errors_global.                                     *)
(***************************************************************************)
\* the local error taken from the current layer alone
local_error_last_layer(prev, local_errors, n) == get_max(local_errors, n)

\* lines 420-422: the local error of one tracer, the maximum over the layers seen so far
local_error_update(prev, local_errors, n) == fmax(prev, get_max(local_errors, n))

\* lines 405-431, one iteration of the loop over d
interpolate_tracer(b, dat, errg, z, d, num_outgoing, first_outgoing, first_incoming) ==
  LET element_length == num_tracers * z_length
      index_incoming == first_incoming * element_length
      index_outgoing == first_outgoing * element_length
      mass_index == num_tracers - 1
      z_offset == z * num_tracers
      start == index_outgoing + z_offset
      mass == get_values(start, num_outgoing, element_length, mass_index, dat)
      total_mass == sum(num_outgoing, mass, missing_value)
      values == get_values(start, num_outgoing, element_length, d, dat)
      interpolated == Div(mult_sum(num_outgoing, values, mass, missing_value), total_mass)
      local_errors == calculate_error_ratios(num_outgoing, values, interpolated, missing_value)
      e == first_incoming * (num_tracers - 1) + d
      max_local == local_error_update(b.errors_adapt[e], local_errors, num_outgoing)
      global == errg[e]
  IN  [data_adapt |-> [b.data_adapt EXCEPT ![index_incoming + z_offset + d] = interpolated],
       errors_adapt |-> [b.errors_adapt EXCEPT ![e] = max_local],
       errors_adapt_global |-> [b.errors_adapt_global EXCEPT ![e] = Add(global, max_local)]]

\* lines 392-433, one iteration of the loop over z
interpolate_layer(b, dat, errg, z, num_outgoing, first_outgoing, first_incoming) ==
  LET element_length == num_tracers * z_length
      index_incoming == first_incoming * element_length
      index_outgoing == first_outgoing * element_length
      mass_index == num_tracers - 1
      z_offset == z * num_tracers
      start == index_outgoing + z_offset
      mass == get_values(start, num_outgoing, element_length, mass_index, dat)
      total_mass == sum(num_outgoing, mass, missing_value)
      b0 == [b EXCEPT !.data_adapt[index_incoming + z_offset + mass_index] = total_mass]
      RECURSIVE tracers(_, _)
      tracers(bb, d) ==
        IF d >= num_tracers - 1 THEN bb
        ELSE tracers(interpolate_tracer(bb, dat, errg, z, d, num_outgoing,
                                        first_outgoing, first_incoming), d + 1)
  IN  tracers(b0, 0)

\* the copy of a record that stops one double short
copy_element_short(b, dat, err, errg, first_outgoing, first_incoming) ==
  LET element_length == num_tracers * z_length
      index_incoming == first_incoming * element_length
      index_outgoing == first_outgoing * element_length
      ne == num_tracers - 1
  IN  [data_adapt |->
         [i \in DOMAIN b.data_adapt |->
            IF i >= index_incoming /\ i < index_incoming + element_length - 1
            THEN dat[index_outgoing + (i - index_incoming)] ELSE b.data_adapt[i]],
       errors_adapt |->
         [i \in DOMAIN b.errors_adapt |->
            IF i >= first_incoming * ne /\ i < first_incoming * ne + ne
            THEN err[first_outgoing * ne + (i - first_incoming * ne)]
            ELSE b.errors_adapt[i]],
       errors_adapt_global |->
         [i \in DOMAIN b.errors_adapt_global |->
            IF i >= first_incoming * ne /\ i < first_incoming * ne + ne
            THEN errg[first_outgoing * ne + (i - first_incoming * ne)]
            ELSE b.errors_adapt_global[i]]]

\* lines 436-448: the record and its errors are copied
copy_element(b, dat, err, errg, first_outgoing, first_incoming) ==
  LET element_length == num_tracers * z_length
      index_incoming == first_incoming * element_length
      index_outgoing == first_outgoing * element_length
      ne == num_tracers - 1
  IN  [data_adapt |->
         [i \in DOMAIN b.data_adapt |->
            IF i >= index_incoming /\ i < index_incoming + element_length
            THEN dat[index_outgoing + (i - index_incoming)] ELSE b.data_adapt[i]],
       errors_adapt |->
         [i \in DOMAIN b.errors_adapt |->
            IF i >= first_incoming * ne /\ i < first_incoming * ne + ne
            THEN err[first_outgoing * ne + (i - first_incoming * ne)]
            ELSE b.errors_adapt[i]],
       errors_adapt_global |->
         [i \in DOMAIN b.errors_adapt_global |->
            IF i >= first_incoming * ne /\ i < first_incoming * ne + ne
            THEN errg[first_outgoing * ne + (i - first_incoming * ne)]
            ELSE b.errors_adapt_global[i]]]

t8_messy_interpolate_callback2_inplace(b, dat, err, errg, num_outgoing, first_outgoing, num_incoming, first_incoming) ==
  IF num_outgoing > num_incoming
  THEN LET RECURSIVE layers(_, _)
           layers(bb, z) ==
             IF z >= z_length THEN bb
             ELSE layers(interpolate_layer(bb, dat, errg, z, num_outgoing,
                                           first_outgoing, first_incoming), z + 1)
       IN  layers(b, 0)
  ELSE copy_element(b, dat, err, errg, first_incoming, first_incoming)

t8_messy_interpolate_callback2(b, dat, err, errg, num_outgoing, first_outgoing, num_incoming, first_incoming) ==
  IF num_outgoing > num_incoming
  THEN LET RECURSIVE layers(_, _)
           layers(bb, z) ==
             IF z >= z_length THEN bb
             ELSE layers(interpolate_layer(bb, dat, errg, z, num_outgoing,
                                           first_outgoing, first_incoming), z + 1)
       IN  layers(b, 0)
  ELSE copy_element(b, dat, err, errg, first_outgoing, first_incoming)

\* t8_forest_iterate_replace: the callback is run on every group, in Morton order
RECURSIVE t8_forest_iterate_replace(_, _, _, _, _, _)
t8_forest_iterate_replace(gs, b, dat, err, errg, first_incoming) ==
  IF gs = <<>> THEN b
  ELSE LET g == Head(gs)
           nb == t8_messy_interpolate_callback2(b, dat, err, errg, g.num, g.first,
                                                Len(g.leaves), first_incoming)
       IN  \* nb = nb has TLC compute the buffers of this group before the next
           IF nb = nb
           THEN t8_forest_iterate_replace(Tail(gs), nb, dat, err, errg,
                                          first_incoming + Len(g.leaves))
           ELSE nb

\* lines 890-895: the adapt buffers of a round, allocated zeroed and filled by the callback
AdaptBuffers(n) ==
  [data_adapt |-> Zeros(n * z_length * num_tracers),
   errors_adapt |-> Zeros(n * (num_tracers - 1)),
   errors_adapt_global |-> Zeros(n * (num_tracers - 1))]

(***************************************************************************)
(* The inputs: the chunk is a 2^L x 2^L grid, L in 1..MaxLevel, of one     *)
(* mass tracer (the last one) and num_tracers - 1 other tracers in         *)
(* z_length layers.  The first nvar families of four sibling cells hold    *)
(* the values a, b and the masses ma, mb in an arrangement that changes    *)
(* with the layer and the tracer; every other cell holds a and ma.  The    *)
(* tracers of odd index hold the negated values.  lo is the first of the   *)
(* nvar families.  In the families of rough the second value is zero.      *)
(***************************************************************************)
InputMissing == Int2D(2)
ValSet == {Int2D(-2), Zero, Int2D(10), Int2D(11), InputMissing}
MassSet == {Zero, Int2D(1), InputMissing}
AllNames ==
  <<<<"t", "0">>, <<"t", "1">>, <<"t", "2">>, <<"t", "3">>, <<"t", "4">>, <<"t", "5">>>>
InputThreshold == Int2D(5)

CoarsenConfigs ==
  {[method |-> m, tracer |-> AllNames[1], z_layer |-> 0, threshold |-> InputThreshold] :
     m \in ThresholdMethods}
InterpolateMethods == {"MEAN", "MIN", "MAX"}

\* which of the two values sibling c takes in arrangement p
First(p, c) ==
  CASE p % 4 = 0 -> c % 2 = 0
    [] p % 4 = 1 -> c >= 2
    [] p % 4 = 2 -> c \in {1, 2}
    [] p % 4 = 3 -> c < 2

InputValue(in, m, z, t) ==
  LET f == m \div 4
      c == m % 4
  IN  IF t = in.nt - 1
      THEN (IF in.lo <= f /\ f < in.lo + in.nvar /\ ~First(z, c) THEN in.mb ELSE in.ma)
      ELSE LET v == IF f \in in.rough /\ ~First(2 * z + t, c) THEN Zero
                    ELSE IF in.lo <= f /\ f < in.lo + in.nvar /\ ~First(2 * z + t, c)
                    THEN in.b ELSE in.a
           IN  IF t % 2 = 1 THEN Neg(v) ELSE v

Interleave(x, y) ==
  LET RECURSIVE il(_, _)
      il(xx, yy) == IF xx = 0 /\ yy = 0 THEN 0
                    ELSE (xx % 2) + 2 * (yy % 2) + 4 * il(xx \div 2, yy \div 2)
  IN  il(x, y)

\* the DENSE layout: (x, y, z, t) at ((y * z_length * x_length + x * z_length + z) * num_tracers) + t
DenseData(in) ==
  LET xl == Pow2(in.L)
  IN  [o \in 0..(xl * xl * in.zl * in.nt - 1) |->
         LET t == o % in.nt
             q == o \div in.nt
             z == q % in.zl
             x == (q \div in.zl) % xl
             y == q \div (in.zl * xl)
         IN  InputValue(in, Interleave(x, y), z, t)]

Inputs ==
  {in \in [L : 1..MaxLevel, zl : 1..MaxZ, nt : 2..MaxTracers,
           a : ValSet, b : ValSet, ma : MassSet, mb : MassSet,
           nvar : {Pow4(l - 1) : l \in 1..MaxLevel}, lo : {0}, rough : {{}}] :
     in.nvar \in {1, Pow4(in.L - 1)}}

\* the configurations of the coarsen predicate and of the interpolation
DefaultCoarsen ==
  [method |-> "MEAN_LOWER", tracer |-> AllNames[1], z_layer |-> 0, threshold |-> InputThreshold]
ConfigInputs == {in \in Inputs : in.L = 1 /\ in.ma = in.mb /\ in.ma = Int2D(1)}
\* chunks of 4 x 4 cells of which the last family alone holds two values
LineageInputs ==
  {[in EXCEPT !.lo = Pow4(in.L - 1) - 1] : in \in {i \in Inputs : i.L = 2 /\ i.nvar = 1}}

NoCall == [op |-> "none"]
\* int shape[3], indexed from 0 as in the source
MkShape(a, b, c) == [p \in 0..2 |-> IF p = 0 THEN a ELSE IF p = 1 THEN b ELSE c]

\* the coupler after t8_messy_initialize and the loading of its tracers
InitCalled(ins, ccs, ims, calls) ==
  \E in \in ins, cc \in ccs, im \in ims, c \in calls :
    /\ x_length = Pow2(in.L)
    /\ y_length = Pow2(in.L)
    /\ z_length = in.zl
    /\ num_tracers = in.nt
    /\ missing_value = InputMissing
    /\ max_level = in.L
    /\ numbering = "MESSY"
    /\ data = DenseData(in)
    /\ data_ids = [i \in 0..(Pow2(in.L) * Pow2(in.L) - 1) |-> 0]
    /\ data_adapt = NULL
    /\ data_ids_adapt = NULL
    /\ tracer_names = SubSeq(AllNames, 1, in.nt)
    /\ shape = MkShape(Pow2(in.L), Pow2(in.L), in.zl)
    /\ x_axis = 0
    /\ y_axis = 1
    /\ z_axis = 2
    /\ call = c
    /\ heap = <<[leaves |-> UniformLeaves(in.L), rc |-> 1]>>
    /\ md_forest = 1
    /\ coarsen = cc
    /\ interpolation = im
    /\ errors = NULL
    /\ errors_adapt = NULL
    /\ errors_global = NULL
    /\ errors_adapt_global = NULL
    /\ md_num_elements = -1
    /\ counter = 0
    /\ forest = 0
    /\ forest_adapt = 0
    /\ last_num_elements = 0
    /\ num_elements = 0
    /\ r = 0
    /\ pc = "init"

\* the coupler before any call of its interface
InitWith(ins, ccs, ims) == InitCalled(ins, ccs, ims, {NoCall})

DefaultInterpolation == [method |-> "MEAN"]
Init == InitWith(Inputs, {DefaultCoarsen}, {DefaultInterpolation})
InitConfig ==
  InitWith(ConfigInputs, CoarsenConfigs, {[method |-> m] : m \in InterpolateMethods})
InitLineage == InitWith(LineageInputs, {DefaultCoarsen}, {DefaultInterpolation})

(***************************************************************************)
(* Operations.                                                             *)
(***************************************************************************)
\* t8_forest_ref, t8_forest_unref on the forest object h
Ref(hp, h) == [hp EXCEPT ![h].rc = @ + 1]
Unref(hp, h) == [hp EXCEPT ![h].rc = @ - 1]
\* the handle after t8_forest_unref (&h): reset to null when the forest was destroyed
AfterUnref(hp, h) == IF Unref(hp, h)[h].rc = 0 THEN 0 ELSE h

\* t8_messy_apply_sfc: the records are copied into forest order and keyed by Morton id
ApplySfc ==
  /\ pc = "init"
  /\ numbering = "MESSY"
  /\ LET ls == heap[md_forest].leaves
         el == z_length * num_tracers
     IN  /\ data' = [i \in 0..(Len(ls) * el - 1) |->
                       LET m == ls[(i \div el) + 1].id
                       IN  data[(MortonY(m) * z_length * x_length
                                 + MortonX(m) * z_length) * num_tracers + (i % el)]]
         /\ data_ids' = [i \in 0..(Len(ls) - 1) |-> ls[i + 1].id]
  /\ numbering' = "MORTON"
  /\ pc' = "idle"
  /\ UNCHANGED <<chunk_vars, io_vars, data_adapt, data_ids_adapt, md_forest, errors, errors_adapt,
                 errors_global, errors_adapt_global, md_num_elements, counter,
                 forest, forest_adapt, last_num_elements, num_elements, r, heap>>

\* t8_messy_coarsen, lines 829-864: up to the loop
CoarsenBegin ==
  /\ pc = "idle"
  /\ numbering = "MORTON"
  /\ forest' = md_forest
  /\ heap' = Ref(heap, md_forest)
  /\ last_num_elements' = 0
  /\ num_elements' = t8_forest_get_num_element(md_forest)
  /\ errors' = Zeros(num_elements' * (num_tracers - 1))
  /\ errors_global' = Zeros(num_elements' * (num_tracers - 1))
  /\ r' = 0
  /\ pc' = "loop"
  /\ UNCHANGED <<chunk_vars, io_vars, numbering, data, data_ids, data_adapt, data_ids_adapt,
                 md_forest, errors_adapt, errors_adapt_global, md_num_elements,
                 counter, forest_adapt>>

\* a test that never sees the fixed point
NothingChanged_never(n, last) == FALSE

\* line 884: the round changed nothing
NothingChanged(n, last) == n = last

\* lines 872-893: the loop test, the adapt of the round, the fixed-point test and the
\* allocation of the adapt buffers.  t8_forest_ref followed by t8_forest_new_adapt,
\* which takes one reference of forest, leaves its count as it was.
AdaptStepFor(rounds) ==
  /\ pc = "loop"
  /\ IF r < rounds
     THEN LET ls == t8_forest_new_adapt(heap[forest].leaves, data)
              n == Len(ls)
          IN  /\ heap' = Append(heap, [leaves |-> ls, rc |-> 1])
              /\ forest_adapt' = Len(heap) + 1
              /\ num_elements' = n
              /\ IF NothingChanged(n, last_num_elements)
                 THEN /\ pc' = "exit"
                      /\ UNCHANGED <<last_num_elements, data_ids_adapt, data_adapt,
                                     errors_adapt, errors_adapt_global>>
                 ELSE /\ pc' = "replace"
                      /\ last_num_elements' = n
                      /\ data_ids_adapt' = [i \in 0..(n - 1) |-> 0]
                      /\ data_adapt' = AdaptBuffers(n).data_adapt
                      /\ errors_adapt' = AdaptBuffers(n).errors_adapt
                      /\ errors_adapt_global' = AdaptBuffers(n).errors_adapt_global
     ELSE /\ pc' = "exit"
          /\ UNCHANGED <<heap, forest_adapt, num_elements, last_num_elements,
                         data_ids_adapt, data_adapt, errors_adapt, errors_adapt_global>>
  /\ UNCHANGED <<chunk_vars, io_vars, numbering, data, data_ids, md_forest, errors, errors_global,
                 md_num_elements, counter, forest, r>>

AdaptStep == AdaptStepFor(MaxRounds)

\* the groups t8_forest_iterate_replace finds between the old leaves and the new leaves
RECURSIVE ReplaceGroups(_, _, _, _)
ReplaceGroups(old, new, j, k) ==
  IF k > Len(new) THEN <<>>
  ELSE IF new[k].level < old[j].level
  THEN <<[first |-> j - 1, num |-> 4, leaves |-> <<new[k]>>]>>
       \o ReplaceGroups(old, new, j + 4, k + 1)
  ELSE IF new[k].level > old[j].level
  THEN <<[first |-> j - 1, num |-> 1, leaves |-> SubSeq(new, k, k + 3)]>>
       \o ReplaceGroups(old, new, j + 1, k + 4)
  ELSE <<[first |-> j - 1, num |-> 1, leaves |-> <<new[k]>>]>>
       \o ReplaceGroups(old, new, j + 1, k + 1)

\* line 895: the adapt buffers after the interpolation of the round
Interpolated ==
  t8_forest_iterate_replace(
    ReplaceGroups(heap[forest].leaves, heap[forest_adapt].leaves, 1, 1),
    [data_adapt |-> data_adapt, errors_adapt |-> errors_adapt,
     errors_adapt_global |-> errors_adapt_global],
    data, errors, errors_global, 0)

\* lines 895-917: the interpolation, the swap of the buffers and of the forests
Replace ==
  /\ pc = "replace"
  /\ data_ids' = data_ids_adapt
  /\ LET b == Interpolated
     IN  /\ data' = b.data_adapt
         /\ errors' = b.errors_adapt
         /\ errors_global' = b.errors_adapt_global
  /\ data_ids_adapt' = NULL
  /\ data_adapt' = NULL
  /\ errors_adapt' = NULL
  /\ errors_adapt_global' = NULL
  /\ heap' = Unref(heap, forest)
  /\ forest' = forest_adapt
  /\ r' = r + 1
  /\ pc' = "loop"
  /\ UNCHANGED <<chunk_vars, io_vars, numbering, md_forest, md_num_elements, counter,
                 forest_adapt, last_num_elements, num_elements>>

\* lines 927-931: the two final unrefs and the bookkeeping.  When both handles
\* name one forest the second unref works on a destroyed object: the count goes
\* below zero here, and the call may crash or return.
CoarsenEnd ==
  /\ pc = "exit"
  /\ LET h1 == Unref(heap, forest_adapt)
     IN  /\ forest_adapt' = AfterUnref(heap, forest_adapt)
         /\ heap' = Unref(h1, forest)
         /\ forest' = AfterUnref(h1, forest)
  /\ md_num_elements' = last_num_elements
  /\ counter' = counter + 1
  /\ pc' \in (IF forest_adapt = forest THEN {"done", "aborted"} ELSE {"done"})
  /\ UNCHANGED <<chunk_vars, io_vars, numbering, data, data_ids, data_adapt, data_ids_adapt,
                 md_forest, errors, errors_adapt, errors_global, errors_adapt_global,
                 last_num_elements, num_elements, r>>

\* t8_messy_get_max_number_elements
t8_messy_get_max_number_elements == t8_forest_get_num_element(md_forest)

Next == ApplySfc \/ CoarsenBegin \/ AdaptStep \/ Replace \/ CoarsenEnd

Spec == Init /\ [][Next]_vars
SpecConfig == InitConfig /\ [][Next]_vars
SpecLineage == InitLineage /\ [][Next]_vars

(***************************************************************************)
(* One adapt round as a function of the forest and the buffers it starts   *)
(* from: lines 877-905.                                                    *)
(***************************************************************************)
RoundResult(ls, dat, err, errg) ==
  LET gs == t8_forest_adapt(ls, dat, 1)
      new == GroupLeaves(gs)
      b == t8_forest_iterate_replace(gs, AdaptBuffers(Len(new)), dat, err, errg, 0)
  IN  [leaves |-> new, data |-> b.data_adapt, errors |-> b.errors_adapt,
       errors_global |-> b.errors_adapt_global]

\* the groups of the round in progress, and the merged ones with their incoming index
Groups == ReplaceGroups(heap[forest].leaves, heap[forest_adapt].leaves, 1, 1)
Merged == {k \in 1..Len(Groups) : Groups[k].num = 4}
ElementLength == z_length * num_tracers
NumRecords == Cardinality(DOMAIN data) \div ElementLength

(***************************************************************************)
(* Properties.                                                             *)
(***************************************************************************)
InCoarsen == pc \in {"loop", "replace", "exit"}

C2_LeafCountMonotone ==
  \A h \in 2..Len(heap) : Len(heap[h].leaves) <= Len(heap[h - 1].leaves)

\* C2 witness: a second round that merged again
C2_Witness ==
  /\ pc = "replace"
  /\ r = 1
  /\ t8_forest_get_num_element(forest_adapt) < t8_forest_get_num_element(forest)
  /\ t8_forest_get_num_element(forest) < t8_forest_get_num_element(md_forest)

\* C3: when the round that starts here merges no group, one more round run on
\* its result gives the same leaves, data and error arrays.
C3_FixedPoint ==
  (pc = "loop" /\ r < MaxRounds) =>
    LET s1 == RoundResult(heap[forest].leaves, data, errors, errors_global)
    IN  Len(s1.leaves) = Len(heap[forest].leaves) =>
          RoundResult(s1.leaves, s1.data, s1.errors, s1.errors_global) = s1

\* C3 witness: a round that merges nothing, on a forest that an earlier round
\* coarsened in part
C3_Witness ==
  /\ pc = "loop"
  /\ r >= 1
  /\ t8_forest_get_num_element(forest) > 1
  /\ t8_forest_get_num_element(forest) < t8_forest_get_num_element(md_forest)
  /\ Len(RoundResult(heap[forest].leaves, data, errors, errors_global).leaves)
       = Len(heap[forest].leaves)

\* sum of the values of f over the finite set S
RECURSIVE SumOver(_, _)
SumOver(f, S) ==
  IF S = {} THEN Zero
  ELSE LET i == CHOOSE j \in S : TRUE
       IN  Add(f[i], SumOver(f, S \ {i}))

\* mass and tracer d of record e in layer z of the buffer dat
MassAt(dat, e, z) == dat[e * ElementLength + z * num_tracers + num_tracers - 1]
ValueAt(dat, e, z, d) == dat[e * ElementLength + z * num_tracers + d]

\* sum over the records S of the masses of layer z that are not the missing value
PresentMass(dat, S, z) ==
  LET P == {e \in S : ~Eq(MassAt(dat, e, z), missing_value)}
  IN  SumOver([e \in P |-> MassAt(dat, e, z)], P)

\* the outgoing records of group k; its incoming record is k - 1 (no group refines)
Siblings(k) == Groups[k].first .. (Groups[k].first + Groups[k].num - 1)
Layers == 0..(z_length - 1)

\* C4: in every round and every layer, the mass of a merged leaf is the sum of
\* the non-missing masses of its four siblings; and the sum of the non-missing
\* masses over all leaves is the same after the round as before it when no
\* merged leaf of the layer gets a mass equal to missing_value.
C4_MassConservation ==
  pc = "replace" =>
    LET new == Interpolated.data_adapt
    IN  \A z \in Layers :
          /\ \A k \in Merged : MassAt(new, k - 1, z) = PresentMass(data, Siblings(k), z)
          /\ (\A k \in Merged : ~Eq(MassAt(new, k - 1, z), missing_value)) =>
               PresentMass(new, 0..(Len(Groups) - 1), z)
                 = PresentMass(data, 0..(NumRecords - 1), z)

\* C4 as claimed: the sum of the non-missing masses of a layer is the same after
\* every round as before it
C4_AsClaimed ==
  pc = "replace" =>
    LET new == Interpolated.data_adapt
    IN  \A z \in Layers :
          /\ \A k \in Merged : MassAt(new, k - 1, z) = PresentMass(data, Siblings(k), z)
          /\ PresentMass(new, 0..(Len(Groups) - 1), z)
               = PresentMass(data, 0..(NumRecords - 1), z)

\* C4 witness: a second round merges four leaves, one of them without mass, into a
\* leaf with mass
C4_Witness ==
  /\ pc = "replace"
  /\ r = 1
  /\ \E k \in Merged, z \in Layers :
       /\ \E e \in Siblings(k) : Eq(MassAt(data, e, z), missing_value)
       /\ Gt(MassAt(Interpolated.data_adapt, k - 1, z), Zero)
       /\ ~Eq(MassAt(Interpolated.data_adapt, k - 1, z), missing_value)

AllGe0(a) == \A i \in DOMAIN a : Ge(a[i], Zero)

\* C5: during and after coarsen every entry of errors and errors_global (and of
\* their adapt buffers) is >= 0, and once a round is completed the global error
\* of every leaf and tracer is >= its local error.
C5_ErrorsNonNegative ==
  (InCoarsen \/ pc = "done") =>
    /\ AllGe0(errors)
    /\ AllGe0(errors_global)
    /\ AllGe0(errors_adapt)
    /\ AllGe0(errors_adapt_global)
    /\ r >= 1 => /\ DOMAIN errors = DOMAIN errors_global
                 /\ \A i \in DOMAIN errors : Ge(errors_global[i], errors[i])

\* C5 witness: after two rounds over data with negative values a leaf has a
\* positive local error and a larger global error
C5_Witness ==
  /\ pc = "done"
  /\ r = 2
  /\ \E i \in DOMAIN data : Lt(data[i], Zero)
  /\ \E i \in DOMAIN errors : Gt(errors[i], Zero) /\ Gt(errors_global[i], errors[i])

\* the leaves of the forest the data records belong to
CurrentLeaves == IF pc = "idle" THEN heap[md_forest].leaves ELSE heap[forest].leaves

\* C6: whenever the numbering is MORTON, after apply_sfc and after every completed
\* round, data_ids has one entry per leaf of the current forest and is strictly
\* increasing.
C6_DataIdsIncreasing ==
  (numbering = "MORTON" /\ pc \in {"idle", "loop"}) =>
    /\ DOMAIN data_ids = 0..(Len(CurrentLeaves) - 1)
    /\ \A i, j \in DOMAIN data_ids : i < j => data_ids[i] < data_ids[j]

\* C7: after coarsen has returned, get_max_num_elements is the leaf count of the
\* coarsened forest, the number of records in data.
C7_MaxNumElements ==
  pc = "done" =>
    /\ md_num_elements = NumRecords
    /\ t8_messy_get_max_number_elements = NumRecords

\* C8: in every round a family of four siblings is merged if and only if the
\* threshold predicate of coarsen_config answers "coarsen" for it.
C8_ConfiguredPredicate ==
  pc = "replace" =>
    \A j \in 1..Len(heap[forest].leaves) :
      IsFamily(heap[forest].leaves, j, max_level) =>
        ((\E k \in Merged : Groups[k].first = j - 1)
           <=> t8_messy_coarsen_callback(data, tracer_names, j - 1, 4) = -1)

\* lines 453-559: the interpolation selected by interpolate_config, applied to
\* the buffer da for one group of the replace iteration
t8_messy_interpolate_callback(da, dat, num_outgoing, first_outgoing, num_incoming, first_incoming) ==
  LET element_data_length == num_tracers * z_length
      index_incoming == first_incoming * element_data_length
      index_outgoing == first_outgoing * element_data_length
      reduce(values) ==
        CASE interpolation.method = "MIN" -> get_min(values, num_outgoing)
          [] interpolation.method = "MAX" -> get_max(values, num_outgoing)
          [] interpolation.method = "MEAN" -> get_mean(values, num_outgoing)
      new(z, d) ==
        reduce(get_values(index_outgoing + z * num_tracers, num_outgoing,
                          element_data_length, d, dat))
  IN  [i \in DOMAIN da |->
         IF i < index_incoming \/ i >= index_incoming + element_data_length
         THEN da[i]
         ELSE IF num_outgoing > num_incoming
         THEN new((i - index_incoming) \div num_tracers, (i - index_incoming) % num_tracers)
         ELSE dat[index_outgoing + (i - index_incoming)]]

\* C9: the record of every merged leaf is the one the interpolation selected in
\* interpolate_config computes: the plain mean, min or max of the four siblings
\* for every tracer and layer.
C9_ConfiguredInterpolation ==
  pc = "replace" =>
    \A k \in Merged :
      \A i \in ((k - 1) * ElementLength)..(k * ElementLength - 1) :
        Interpolated.data_adapt[i]
          = t8_messy_interpolate_callback(data_adapt, data, 4, Groups[k].first, 1, k - 1)[i]

\* the siblings of group k that have both a value of tracer d and a mass in layer z
Weighted(k, z, d) ==
  {e \in Siblings(k) : /\ ~Eq(ValueAt(data, e, z, d), missing_value)
                       /\ ~Eq(MassAt(data, e, z), missing_value)}

\* C10: for every merge and layer the new mass is the sum of the siblings' masses
\* that are not missing, and every other tracer is sum(value * mass) / sum(mass)
\* over the siblings whose value and mass are both not missing (where that sum
\* of masses is not 0).
C10_MassWeighted ==
  pc = "replace" =>
    LET new == Interpolated.data_adapt
    IN  \A k \in Merged, z \in Layers :
          /\ Eq(MassAt(new, k - 1, z), PresentMass(data, Siblings(k), z))
          /\ \A d \in 0..(num_tracers - 2) :
               LET W == Weighted(k, z, d)
                   den == SumOver([e \in W |-> MassAt(data, e, z)], W)
                   num == SumOver([e \in W |-> Mul(ValueAt(data, e, z, d),
                                                   MassAt(data, e, z))], W)
               IN  ~IsZero(den) => ValueAt(new, k - 1, z, d) = Div(num, den)

\* the siblings of group k have no value of tracer d in layer z, or no mass to weigh with
NothingToWeigh(k, z, d) ==
  \/ \A e \in Siblings(k) : Eq(ValueAt(data, e, z, d), missing_value)
  \/ IsZero(PresentMass(data, Siblings(k), z))

\* C11: a merged group whose four siblings are all missing, or whose mass-weighted
\* denominator is 0, gets the interpolated value 0 and the error 0, and no
\* not-a-number value is stored.
C11_MissingGroupIsZero ==
  pc = "replace" =>
    LET b == Interpolated
    IN  \A k \in Merged, d \in 0..(num_tracers - 2) :
          /\ \A z \in Layers :
               NothingToWeigh(k, z, d) =>
                 /\ ~IsNaN(ValueAt(b.data_adapt, k - 1, z, d))
                 /\ ValueAt(b.data_adapt, k - 1, z, d) = Zero
          /\ (\A z \in Layers : NothingToWeigh(k, z, d)) =>
               b.errors_adapt[(k - 1) * (num_tracers - 1) + d] = Zero

\* |value - interpolated| / |value| of the four siblings from record first in layer z
\* for tracer d, a value that is 0 or missing contributing 0
RelativeErrors(first, z, d) ==
  LET values == get_values(first * ElementLength + z * num_tracers, 4, ElementLength, d, data)
      value == interpolated_value(data, first * ElementLength, z, d, 4)
  IN  [i \in 0..3 |->
         IF Eq(values[i], missing_value) \/ IsZero(values[i]) THEN Zero
         ELSE Div(fabs(Sub(values[i], value)), fabs(values[i]))]

\* C12: a family of four siblings is merged if and only if in every layer and for
\* every tracer but the mass the largest |value - interpolated| / |value| of the
\* four does not exceed 0.10, for negative values as for positive ones.
C12_ErrorTolerance ==
  pc = "replace" =>
    \A j \in 1..Len(heap[forest].leaves) :
      IsFamily(heap[forest].leaves, j, max_level) =>
        ((\E k \in Merged : Groups[k].first = j - 1)
           <=> \A z \in Layers, d \in 0..(num_tracers - 2) :
                 ~Gt(get_max(RelativeErrors(j - 1, z, d), 4), Tolerance))

\* C13: the global error stored for a merged leaf and a tracer is the largest
\* global error of the four merged children, read at their indices in the old
\* forest, plus the new local error of the merged leaf.
C13_GlobalError ==
  pc = "replace" =>
    LET b == Interpolated
    IN  \A k \in Merged, d \in 0..(num_tracers - 2) :
          LET child == [i \in 0..3 |->
                          errors_global[(Groups[k].first + i) * (num_tracers - 1) + d]]
              e == (k - 1) * (num_tracers - 1) + d
          IN  b.errors_adapt_global[e] = Add(get_max(child, 4), b.errors_adapt[e])

(***************************************************************************)
(* t8_messy_coarsen called outside its protocol: before apply_sfc, without *)
(* a configuration, or with the custom method and no function.  The checks *)
(* of lines 834-847 are T8_ASSERTs, compiled in debug builds only.         *)
(***************************************************************************)
CustomCoarsen ==
  [method |-> "FUNCTION", tracer |-> AllNames[1], z_layer |-> 0, threshold |-> InputThreshold,
   func |-> NULL]
\* a configuration pointer that is null
NullConfig == [method |-> "NULL"]
MisuseCoarsenConfigs == {DefaultCoarsen, CustomCoarsen, NullConfig}
MisuseInterpolations ==
  {DefaultInterpolation, [method |-> "FUNCTION", func |-> NULL], NullConfig}

InitMisuse == InitWith(ConfigInputs, MisuseCoarsenConfigs, MisuseInterpolations)

\* lines 834-847: what the assertions of coarsen reject
AssertionFails ==
  \/ coarsen = NullConfig
  \/ interpolation = NullConfig
  \/ coarsen.method = "FUNCTION" /\ coarsen.func = NULL
  \/ interpolation.method = "FUNCTION" /\ interpolation.func = NULL

\* a debug build, or a release build that dereferences a null configuration at
\* line 839 or 845 and crashes: coarsen aborts
CoarsenAbort ==
  /\ pc \in {"init", "idle"}
  /\ AssertionFails
  /\ pc' = "aborted"
  /\ UNCHANGED <<chunk_vars, io_vars, numbering, data, data_ids, data_adapt, data_ids_adapt,
                 md_forest, errors, errors_adapt, errors_global, errors_adapt_global,
                 md_num_elements, counter, forest, forest_adapt, last_num_elements,
                 num_elements, r, heap>>

\* lines 829-864 on a chunk that apply_sfc has not reordered: no statement of
\* coarsen looks at the numbering
CoarsenDense ==
  /\ pc = "init"
  /\ numbering = "MESSY"
  /\ forest' = md_forest
  /\ heap' = Ref(heap, md_forest)
  /\ last_num_elements' = 0
  /\ num_elements' = t8_forest_get_num_element(md_forest)
  /\ errors' = Zeros(num_elements' * (num_tracers - 1))
  /\ errors_global' = Zeros(num_elements' * (num_tracers - 1))
  /\ r' = 0
  /\ pc' = "loop"
  /\ UNCHANGED <<chunk_vars, io_vars, numbering, data, data_ids, data_adapt, data_ids_adapt,
                 md_forest, errors_adapt, errors_adapt_global, md_num_elements,
                 counter, forest_adapt>>

NextMisuse == Next \/ CoarsenAbort \/ CoarsenDense
SpecMisuse == InitMisuse /\ [][NextMisuse]_vars

\* C14: coarsen does not get past its entry, and so touches no data, while the
\* chunk is still DENSE, while a configuration is null or while a configuration
\* selects the custom method without a function.
C14_Fatal ==
  (InCoarsen \/ pc = "done") =>
    /\ numbering = "MORTON"
    /\ ~AssertionFails

(***************************************************************************)
(* t8_messy_reset, lines 713-736: the coupler is made ready for the next   *)
(* load of tracers.  The number of coarsen invocations is bounded.         *)
(***************************************************************************)
\* a reset that keeps the reordered buffer
ResetData_stale(n) == data

\* line 731: the dense buffer, allocated zeroed
ResetData(n) == Zeros(n)

Reset ==
  /\ pc \in {"init", "idle", "done"}
  /\ counter < MaxCoarsens
  /\ errors' = NULL
  /\ errors_adapt' = NULL
  /\ errors_global' = NULL
  /\ errors_adapt_global' = NULL
  /\ IF numbering = "MORTON"
     THEN /\ data' = ResetData(x_length * y_length * z_length * num_tracers)
          /\ data_ids' = [i \in 0..(x_length * y_length - 1) |-> 0]
          /\ numbering' = "MESSY"
     ELSE UNCHANGED <<data, data_ids, numbering>>
  /\ pc' = "init"
  /\ UNCHANGED <<chunk_vars, io_vars, data_adapt, data_ids_adapt, md_forest, md_num_elements,
                 counter, forest, forest_adapt, last_num_elements, num_elements, r, heap>>

InitReset == InitWith(ConfigInputs, {DefaultCoarsen}, {DefaultInterpolation})
NextReset == Next \/ Reset
SpecReset == InitReset /\ [][NextReset]_vars

\* C15: the numbering leaves MORTON only by t8_messy_reset, which gives the chunk
\* a zeroed DENSE buffer again; apply_sfc and coarsen never bring it back.
C15_OneWayButReset ==
  [][(numbering = "MORTON" /\ numbering' # "MORTON") =>
       /\ numbering' = "MESSY"
       /\ pc \in {"idle", "done"} /\ pc' = "init"
       /\ data' = Zeros(x_length * y_length * z_length * num_tracers)
       /\ \A i \in DOMAIN data_ids' : data_ids'[i] = 0
       /\ errors' = NULL /\ errors_global' = NULL]_vars

\* C15 as claimed: once the numbering is MORTON no step brings it back to DENSE
C15_AsClaimed == [][numbering = "MORTON" => numbering' = "MORTON"]_vars

\* C15 witness: a chunk that was reordered and coarsened is DENSE again
C15_Witness ==
  /\ pc = "init"
  /\ counter >= 1
  /\ numbering = "MESSY"
  /\ data = Zeros(x_length * y_length * z_length * num_tracers)

(***************************************************************************)
(* Loading: t8_messy_set_tracer_values.  A tracer name is a sequence of    *)
(* characters; the input buffer holds one value per cell of the chunk, the *)
(* axis of slot 0 running fastest.                                         *)
(***************************************************************************)
MaxExtent == 3
MaxCells == 6
BUFSIZ == 8192

isspace(c) == c = " "

\* the trimmed copy of str that fits a buffer of len characters (len > 0;
\* the one caller passes BUFSIZ)
trimwhitespace(len, str) ==
  LET solid == {i \in 1..Len(str) : ~isspace(str[i])}
  IN  IF solid = {} THEN <<>>
      ELSE LET start == CHOOSE i \in solid : \A j \in solid : i <= j
               end == (CHOOSE i \in solid : \A j \in solid : j <= i) + 1
               out_size == IF end - start < len - 1 THEN end - start ELSE len - 1
           IN  SubSeq(str, start, start + out_size - 1)

\* the registered names after a lookup of name that may add it
t8_latlon_add_tracer(names, name, add) ==
  IF t8_latlon_get_tracer_idx(names, name) = -1 /\ add
  THEN Append(names, name)
  ELSE names

data_index_noflip(i, shp, xa, ya, za, xl, yl, zl, nt, tracer_index) ==
  LET len == shp[0] * shp[1]
      l == i % len
      idx == [k \in 0..2 |-> IF k = 0 THEN i \div len
                             ELSE IF k = 1 THEN l \div shp[0]
                             ELSE l % shp[0]]
      x == idx[2 - xa]
      y == idx[2 - ya]
      z == idx[2 - za]
  IN  ((y * zl * xl + x * zl + z) * nt) + tracer_index

\* the offset in the DENSE buffer to which input element i is copied
data_index(i, shp, xa, ya, za, xl, yl, zl, nt, tracer_index) ==
  LET len == shp[0] * shp[1]
      l == i % len
      idx == [k \in 0..2 |-> IF k = 0 THEN i \div len
                             ELSE IF k = 1 THEN l \div shp[0]
                             ELSE l % shp[0]]
      x == idx[2 - xa]
      y == (yl - 1) - idx[2 - ya]
      z == idx[2 - za]
  IN  ((y * zl * xl + x * zl + z) * nt) + tracer_index

StoreTracer_asis(dat, values, shp, xa, ya, za, xl, yl, zl, nt, tracer_index) ==
  [o \in DOMAIN dat |->
     IF o % nt = tracer_index /\ o \div nt < xl * yl * zl
     THEN values[o \div nt]
     ELSE dat[o]]

\* the buffer after the copy loop; a later copy to an offset wins
StoreTracer(dat, values, shp, xa, ya, za, xl, yl, zl, nt, tracer_index) ==
  LET size == xl * yl * zl
      at(i) == data_index(i, shp, xa, ya, za, xl, yl, zl, nt, tracer_index)
  IN  [o \in DOMAIN dat |->
         IF \E i \in 0..(size - 1) : at(i) = o
         THEN values[CHOOSE i \in 0..(size - 1) :
                       at(i) = o /\ \A j \in (i + 1)..(size - 1) : at(j) # o]
         ELSE dat[o]]

\* the copies that fall outside the buffer
StrayCopies(dat, shp, xa, ya, za, xl, yl, zl, nt, tracer_index) ==
  {i \in 0..(xl * yl * zl - 1) :
     data_index(i, shp, xa, ya, za, xl, yl, zl, nt, tracer_index) \notin DOMAIN dat}

NameInputs ==
  {<<"a">>, <<" ", "a", " ">>, <<"b", " ">>, <<" ", "c">>}
BufferIds == {1, 2}
InputBuffer(b, size) == [i \in 0..(size - 1) |-> Int2D(10 * b + i)]

\* T8_ASSERT (tracer_index > -1) stops a build with assertions; a build
\* without them runs the copy loop with tracer_index = -1.
SetTracerValues ==
  /\ pc = "load"
  /\ \E tracer_name \in NameInputs, b \in BufferIds :
       LET name == trimwhitespace(BUFSIZ, tracer_name)
           add == Len(tracer_names) < num_tracers
           names == t8_latlon_add_tracer(tracer_names, name, add)
           tracer_index == t8_latlon_get_tracer_idx(names, name)
           values == InputBuffer(b, x_length * y_length * z_length)
           stray == StrayCopies(data, shape, x_axis, y_axis, z_axis,
                                x_length, y_length, z_length, num_tracers, tracer_index)
       IN  /\ tracer_names' = names
           /\ call' = [op |-> "set", name |-> tracer_name, values |-> values,
                       index |-> tracer_index, stray |-> stray]
           /\ \/ /\ tracer_index = -1
                 /\ pc' = "aborted"
                 /\ data' = data
              \/ /\ pc' = "load"
                 /\ data' = StoreTracer(data, values, shape, x_axis, y_axis, z_axis,
                                        x_length, y_length, z_length, num_tracers,
                                        tracer_index)
  /\ UNCHANGED <<x_length, y_length, z_length, num_tracers, missing_value, max_level,
                 coarsen, interpolation, shape, x_axis, y_axis, z_axis,
                 numbering, data_ids, data_adapt, data_ids_adapt, md_forest,
                 errors, errors_adapt, errors_global, errors_adapt_global,
                 md_num_elements, counter, forest, forest_adapt, last_num_elements,
                 num_elements, r, heap>>

(***************************************************************************)
(* t8_messy_initialize: the axis string names the axis of each slot of     *)
(* shape.  strchr gives a null pointer for a letter that is absent, and    *)
(* the difference of a null pointer and axis is no index at all: absent    *)
(* draws it from NullOffsets.                                              *)
(***************************************************************************)
AxisLetters == {"X", "Y", "Z"}
AxisStrings ==
  {s \in UNION {[1..n -> AxisLetters] : n \in 0..3} :
     \A i, j \in 1..Len(s) : s[i] = s[j] => i = j}
AxisPermutations == {s \in AxisStrings : Len(s) = 3}
NullOffsets == {-5, 7}
ShapeSet ==
  {shp \in [0..2 -> 1..MaxExtent] : shp[0] * shp[1] * shp[2] <= MaxCells}

\* strchr (axis, letter) - axis
strchr(axis, letter, absent) ==
  IF \E i \in 1..Len(axis) : axis[i] = letter
  THEN (CHOOSE i \in 1..Len(axis) : axis[i] = letter) - 1
  ELSE absent

IntMax(a, b) == IF a >= b THEN a ELSE b

\* the smallest level whose 2^level x 2^level grid holds the chunk
LatlonLevel(xl, yl) ==
  CHOOSE l \in 0..MaxExtent :
    /\ Pow2(l) >= IntMax(xl, yl)
    /\ \A k \in 0..(l - 1) : Pow2(k) < IntMax(xl, yl)

\* the axis slots and lengths t8_messy_initialize hands to the chunk
t8_messy_initialize(axis, shp, absent) ==
  LET x == strchr(axis, "X", absent[0])
      y == strchr(axis, "Y", absent[1])
      z == strchr(axis, "Z", absent[2])
  IN  [x_axis |-> IF x >= 0 /\ x <= 3 THEN x ELSE IntMax(y, z) + 1,
       y_axis |-> IF y >= 0 /\ y <= 3 THEN y ELSE IntMax(x, z) + 1,
       z_axis |-> IF z >= 0 /\ z <= 3 THEN z ELSE IntMax(x, y) + 1,
       x_length |-> IF x >= 0 /\ x <= 3 THEN shp[x] ELSE 1,
       y_length |-> IF y >= 0 /\ y <= 3 THEN shp[y] ELSE 1,
       z_length |-> IF z >= 0 /\ z <= 3 THEN shp[z] ELSE 1]

\* the coupler after t8_messy_initialize, before any tracer is loaded
InitLoad ==
  \E axis \in AxisPermutations, shp \in ShapeSet, nt \in 1..(MaxTracers - 1) :
    LET c == t8_messy_initialize(axis, shp, [k \in 0..2 |-> 0])
    IN  /\ x_length = c.x_length
        /\ y_length = c.y_length
        /\ z_length = c.z_length
        /\ x_axis = c.x_axis
        /\ y_axis = c.y_axis
        /\ z_axis = c.z_axis
        /\ shape = shp
        /\ num_tracers = nt
        /\ missing_value = InputMissing
        /\ max_level = LatlonLevel(c.x_length, c.y_length)
        /\ numbering = "MESSY"
        /\ data = Zeros(c.x_length * c.y_length * c.z_length * nt)
        /\ data_ids = [i \in 0..(c.x_length * c.y_length - 1) |-> 0]
        /\ data_adapt = NULL
        /\ data_ids_adapt = NULL
        /\ tracer_names = <<>>
        /\ heap = <<[leaves |-> UniformLeaves(LatlonLevel(c.x_length, c.y_length)),
                     rc |-> 1]>>
        /\ md_forest = 1
        /\ coarsen = DefaultCoarsen
        /\ interpolation = DefaultInterpolation
        /\ errors = NULL
        /\ errors_adapt = NULL
        /\ errors_global = NULL
        /\ errors_adapt_global = NULL
        /\ md_num_elements = -1
        /\ counter = 0
        /\ forest = 0
        /\ forest_adapt = 0
        /\ last_num_elements = 0
        /\ num_elements = 0
        /\ r = 0
        /\ pc = "load"
        /\ call = [op |-> "initialize", axis |-> axis]

NextLoad == SetTracerValues
SpecLoad == InitLoad /\ [][NextLoad]_vars

NoDuplicates(names) == \A i, j \in 1..Len(names) : names[i] = names[j] => i = j

\* C16: every call of set_tracer_values resolves its trimmed name as the
\* claim says: a registered name gets the index it had and the table is
\* left alone, a new name is appended at the next free index while fewer
\* than num_tracers names are registered, a new name on a full table makes
\* the call fail without a write, and the table never holds a name twice.
C16_Registration ==
  [][call'.op = "set" =>
       LET name == trimwhitespace(BUFSIZ, call'.name)
           known == \E i \in 1..Len(tracer_names) : tracer_names[i] = name
       IN  /\ known =>
                /\ tracer_names' = tracer_names
                /\ tracer_names[call'.index + 1] = name
           /\ (~known /\ Len(tracer_names) < num_tracers) =>
                /\ tracer_names' = Append(tracer_names, name)
                /\ call'.index = Len(tracer_names)
           /\ (~known /\ Len(tracer_names) >= num_tracers) =>
                /\ tracer_names' = tracer_names
                /\ pc' = "aborted"
                /\ data' = data
           /\ NoDuplicates(tracer_names')]_vars

\* the place in the input buffer of the element with logical coordinates
\* (x, y_in, z): the coordinate of the axis in slot 0 runs fastest
LogicalIndex(x, y_in, z) ==
  LET at(p) == IF p = x_axis THEN x ELSE IF p = y_axis THEN y_in ELSE z
  IN  at(0) + shape[0] * (at(1) + shape[1] * at(2))

\* C17: a call of set_tracer_values that resolves tracer index t stores the
\* input element of logical coordinates (x, y_in, z) at offset
\* ((y*z_length*x_length + x*z_length + z)*num_tracers) + t with
\* y = y_length - 1 - y_in; the copies go to pairwise distinct offsets
\* inside the buffer, and the slots of the other tracers keep their values.
C17_DenseStore ==
  [][(call'.op = "set" /\ call'.index >= 0) =>
       LET t == call'.index
           size == x_length * y_length * z_length
           off(x, y_in, z) ==
             (((y_length - 1 - y_in) * z_length * x_length + x * z_length + z)
                * num_tracers) + t
           at(i) == data_index(i, shape, x_axis, y_axis, z_axis,
                               x_length, y_length, z_length, num_tracers, t)
       IN  /\ \A x \in 0..(x_length - 1), y_in \in 0..(y_length - 1), z \in 0..(z_length - 1) :
                /\ LogicalIndex(x, y_in, z) \in 0..(size - 1)
                /\ at(LogicalIndex(x, y_in, z)) = off(x, y_in, z)
                /\ data'[off(x, y_in, z)] = call'.values[LogicalIndex(x, y_in, z)]
           /\ \A i, j \in 0..(size - 1) : at(i) = at(j) => i = j
           /\ \A i \in 0..(size - 1) : at(i) >= 0 /\ at(i) < size * num_tracers
           /\ DOMAIN data' = 0..(size * num_tracers - 1)
           /\ \A o \in DOMAIN data : o % num_tracers # t => data'[o] = data[o]]_vars

\* C17 witness: the second tracer of a chunk with several rows and columns
\* was loaded from a permuted buffer after the first tracer
C17_Witness ==
  /\ pc = "load"
  /\ call.op = "set"
  /\ call.index = 1
  /\ y_length >= 2
  /\ x_length >= 2
  /\ x_axis # 0
  /\ \A o \in DOMAIN data : data[o] # Zero

\* D transposed by the axis permutation of the chunk: the buffer that holds
\* the same elements with x running fastest, then y, then z
Transposed(values) ==
  [i \in 0..(x_length * y_length * z_length - 1) |->
     values[LogicalIndex(i % x_length, (i \div x_length) % y_length,
                         i \div (x_length * y_length))]]

\* C18: after a chunk initialized with a permutation P of "XYZ" loads a
\* buffer D into a tracer, the slots of this tracer hold what a chunk of
\* the same lengths initialized with "XYZ" holds after loading D
\* transposed by P.
C18_AxisPermutation ==
  (pc = "load" /\ call.op = "set" /\ call.index >= 0) =>
    LET xyz == MkShape(x_length, y_length, z_length)
        c == t8_messy_initialize(<<"X", "Y", "Z">>, xyz, [k \in 0..2 |-> 0])
        n == c.x_length * c.y_length * c.z_length * num_tracers
        canonical == StoreTracer(Zeros(n), Transposed(call.values), xyz,
                                 c.x_axis, c.y_axis, c.z_axis,
                                 c.x_length, c.y_length, c.z_length,
                                 num_tracers, call.index)
    IN  /\ \E P \in AxisPermutations :
             LET cP == t8_messy_initialize(P, shape, [k \in 0..2 |-> 0])
             IN  /\ <<cP.x_axis, cP.y_axis, cP.z_axis>> = <<x_axis, y_axis, z_axis>>
                 /\ <<cP.x_length, cP.y_length, cP.z_length>> = <<x_length, y_length, z_length>>
        /\ DOMAIN canonical = DOMAIN data
        /\ \A o \in DOMAIN data :
             o % num_tracers = call.index => data[o] = canonical[o]

\* C18 witness: a buffer of 3 x 2 x 1 cells was loaded under the axis
\* string "ZYX", in which no axis has the slot it has in "XYZ"
C18_Witness ==
  /\ pc = "load"
  /\ call.op = "set"
  /\ call.index >= 0
  /\ <<x_axis, y_axis, z_axis>> = <<2, 1, 0>>
  /\ <<x_length, y_length, z_length>> = <<3, 2, 1>>
  /\ Transposed(call.values) # call.values

(***************************************************************************)
(* t8_messy_initialize as a step: from the arguments of the call to the    *)
(* chunk it creates.  The axis string holds each of X, Y, Z at most once   *)
(* and may leave some out.                                                 *)
(***************************************************************************)
InitAxis ==
  \E axis \in AxisStrings, shp \in ShapeSet, absent \in [0..2 -> NullOffsets] :
    /\ call = [op |-> "initialize", axis |-> axis, absent |-> absent]
    /\ shape = shp
    /\ num_tracers = 1
    /\ pc = "start"
    /\ x_length = 0 /\ y_length = 0 /\ z_length = 0
    /\ x_axis = 0 /\ y_axis = 0 /\ z_axis = 0
    /\ missing_value = InputMissing
    /\ max_level = 0
    /\ numbering = "MESSY"
    /\ data = NULL
    /\ data_ids = NULL
    /\ data_adapt = NULL
    /\ data_ids_adapt = NULL
    /\ tracer_names = <<>>
    /\ heap = <<>>
    /\ md_forest = 0
    /\ coarsen = DefaultCoarsen
    /\ interpolation = DefaultInterpolation
    /\ errors = NULL
    /\ errors_adapt = NULL
    /\ errors_global = NULL
    /\ errors_adapt_global = NULL
    /\ md_num_elements = -1
    /\ counter = 0
    /\ forest = 0
    /\ forest_adapt = 0
    /\ last_num_elements = 0
    /\ num_elements = 0
    /\ r = 0

Initialize ==
  /\ pc = "start"
  /\ LET c == t8_messy_initialize(call.axis, shape, call.absent)
     IN  /\ x_axis' = c.x_axis
         /\ y_axis' = c.y_axis
         /\ z_axis' = c.z_axis
         /\ x_length' = c.x_length
         /\ y_length' = c.y_length
         /\ z_length' = c.z_length
         /\ max_level' = LatlonLevel(c.x_length, c.y_length)
         /\ heap' = <<[leaves |-> UniformLeaves(LatlonLevel(c.x_length, c.y_length)),
                      rc |-> 1]>>
         /\ data' = Zeros(c.x_length * c.y_length * c.z_length * num_tracers)
         /\ data_ids' = [i \in 0..(c.x_length * c.y_length - 1) |-> 0]
  /\ md_forest' = 1
  /\ pc' = "load"
  /\ UNCHANGED <<num_tracers, missing_value, coarsen, interpolation, tracer_names,
                 shape, call, numbering, data_adapt, data_ids_adapt,
                 errors, errors_adapt, errors_global, errors_adapt_global,
                 md_num_elements, counter, forest, forest_adapt, last_num_elements,
                 num_elements, r>>

NextAxis == Initialize
SpecAxis == InitAxis /\ [][NextAxis]_vars

Absent(letter) == \A i \in 1..Len(call.axis) : call.axis[i] # letter

\* C19: after initialize with an axis string that leaves out one or more
\* of X, Y, Z, each absent axis has length 1 and x_axis, y_axis, z_axis are
\* pairwise distinct values in {0, 1, 2}, so that an absent axis has the
\* slot no other axis uses.
C19_AbsentAxes ==
  (pc = "load" /\ call.op = "initialize" /\ Len(call.axis) < 3) =>
    /\ Absent("X") => x_length = 1
    /\ Absent("Y") => y_length = 1
    /\ Absent("Z") => z_length = 1
    /\ {x_axis, y_axis, z_axis} = {0, 1, 2}

(***************************************************************************)
(* t8_messy_write_tracer_values after t8_messy_coarsen has returned, for a *)
(* registered tracer whose name may come with surrounding blanks.          *)
(***************************************************************************)
WriteNames ==
  {tracer_names[i] : i \in 1..Len(tracer_names)}
    \cup {<<" ">> \o tracer_names[i] \o <<" ">> : i \in 1..Len(tracer_names)}

write_offset_flat(element, z, tracer_index) ==
  (z * md_num_elements + element) * num_tracers + tracer_index

\* offset of layer z of tracer tracer_index in record element
write_offset(element, z, tracer_index) ==
  LET num_data == z_length * num_tracers
  IN  element * num_data + z * num_tracers + tracer_index

\* data_chunk->data[offset]; an offset outside the buffer reads whatever
\* lies there
ReadData(dat, offset, stray) == IF offset \in DOMAIN dat THEN dat[offset] ELSE stray
StrayValues == {Zero, NaN}

\* no test of tracer_index: an unregistered name gives -1 and the loop runs
WriteTracerValuesOf(names) ==
  /\ pc = "done"
  /\ \E tracer_name \in names, stray \in StrayValues :
       LET name == trimwhitespace(BUFSIZ, tracer_name)
           tracer_index == t8_latlon_get_tracer_idx(tracer_names, name)
       IN  call' = [op |-> "write", name |-> tracer_name, index |-> tracer_index,
                    out |-> [index \in 0..(z_length * md_num_elements - 1) |->
                               ReadData(data,
                                        write_offset(index % md_num_elements,
                                                     index \div md_num_elements,
                                                     tracer_index),
                                        stray)]]
  /\ UNCHANGED <<chunk_vars, numbering, data, data_ids, data_adapt, data_ids_adapt,
                 md_forest, errors, errors_adapt, errors_global, errors_adapt_global,
                 md_num_elements, counter, forest, forest_adapt, last_num_elements,
                 num_elements, r, pc, heap>>

WriteTracerValues == WriteTracerValuesOf(WriteNames)

NextWrite == Next \/ WriteTracerValues
SpecWrite == Init /\ [][NextWrite]_vars

\* C20: a call of write_tracer_values after coarsen, for a registered
\* tracer, fills out with exactly N * z_length values, N being the number
\* of leaves after coarsening; out[z*N + e] is the value the tracer has in
\* layer z of leaf e; the chunk is left as it was.
C20_WriteZMajor ==
  [][call'.op = "write" =>
       LET N == Cardinality(DOMAIN data_ids)
           t == call'.index
       IN  /\ t \in 0..(num_tracers - 1)
           /\ tracer_names[t + 1] = trimwhitespace(BUFSIZ, call'.name)
           /\ N = NumRecords
           /\ DOMAIN call'.out = 0..(N * z_length - 1)
           /\ \A z \in 0..(z_length - 1), e \in 0..(N - 1) :
                call'.out[z * N + e] = ValueAt(data, e, z, t)
           /\ UNCHANGED <<chunk_vars, numbering, data, data_ids, data_adapt,
                          data_ids_adapt>>]_vars

\* C20 witness: the second tracer of a coarsened chunk of several leaves
\* and two layers was written, and its values differ between leaves and
\* between layers
C20_Witness ==
  /\ pc = "done"
  /\ call.op = "write"
  /\ call.index = 1
  /\ z_length = 2
  /\ md_num_elements > 1
  /\ md_num_elements < x_length * y_length
  /\ call.out[0] # call.out[1]
  /\ call.out[0] # call.out[md_num_elements]

(***************************************************************************)
(* Names that were never registered: as the argument of                    *)
(* t8_messy_write_tracer_values and as the tracer of the coarsen config.   *)
(***************************************************************************)
UnknownName == <<"u">>
UnknownCoarsen == [DefaultCoarsen EXCEPT !.tracer = UnknownName]
InitUnknown ==
  InitWith(ConfigInputs, {DefaultCoarsen, UnknownCoarsen}, {DefaultInterpolation})
WriteAnyName == WriteTracerValuesOf(WriteNames \cup {UnknownName})
NextUnknown == Next \/ WriteAnyName
SpecUnknown == InitUnknown /\ [][NextUnknown]_vars

Registered(name) == t8_latlon_get_tracer_idx(tracer_names, name) # -1

\* C21: an unregistered tracer name is fatal at the call site:
\* write_tracer_values with such a name aborts and fills no buffer, and
\* coarsen with a config whose tracer is unregistered aborts before any
\* round reads the data.
C21_UnknownTracerFatal ==
  /\ (call.op = "write" /\ ~Registered(trimwhitespace(BUFSIZ, call.name))) =>
       pc = "aborted"
  /\ ~Registered(coarsen.tracer) => pc \in {"init", "idle", "aborted"}

(***************************************************************************)
(* The constructors of the two configs, from the method name to the method. *)
(***************************************************************************)
CoarsenNames ==
  {"mean_lower", "mean_higher", "min_lower", "min_higher", "max_lower",
   "max_higher", "custom", "error_tol"}
InterpolateNames == {"mean", "min", "max", "custom", "mass_weighted"}
ZLayerArgs == {-3, -2, -1, 0, 1}

t8_messy_new_coarsen_config(method, tracer, z_layer, threshold, func) ==
  [tracer |-> tracer, z_layer |-> z_layer, threshold |-> threshold,
   method |-> IF method = "mean_lower" THEN "MEAN_LOWER"
              ELSE IF method = "mean_higher" THEN "MEAN_HIGHER"
              ELSE IF method = "min_lower" THEN "MIN_LOWER"
              ELSE IF method = "min_higher" THEN "MIN_HIGHER"
              ELSE IF method = "max_lower" THEN "MAX_LOWER"
              ELSE IF method = "max_higher" THEN "MAX_HIGHER"
              ELSE IF method = "custom" THEN "FUNCTION"
              ELSE "MEAN_LOWER",
   func |-> func]

t8_messy_new_interpolate_config(method, func) ==
  [method |-> IF method = "mean" THEN "MEAN"
              ELSE IF method = "min" THEN "MIN"
              ELSE IF method = "max" THEN "MAX"
              ELSE IF method = "custom" THEN "FUNCTION"
              ELSE "MEAN",
   func |-> func]

\* the chunk of InitReset before its configs are made
InitNames ==
  /\ InitWith({in \in ConfigInputs : in.a = in.b}, {NullConfig}, {NullConfig})
  /\ pc = "init"

\* the two constructors, called with method names of the documentation
NewConfigs ==
  /\ pc = "init"
  /\ coarsen = NullConfig
  /\ \E cm \in CoarsenNames, im \in InterpolateNames, zl \in ZLayerArgs :
       /\ coarsen' = t8_messy_new_coarsen_config(cm, AllNames[1], zl, InputThreshold, NULL)
       /\ interpolation' = t8_messy_new_interpolate_config(im, NULL)
       /\ call' = [op |-> "config", coarsen |-> cm, interpolation |-> im]
  /\ UNCHANGED <<x_length, y_length, z_length, num_tracers, missing_value, max_level,
                 tracer_names, shape, x_axis, y_axis, z_axis,
                 numbering, data, data_ids, data_adapt, data_ids_adapt, md_forest,
                 errors, errors_adapt, errors_global, errors_adapt_global,
                 md_num_elements, counter, forest, forest_adapt, last_num_elements,
                 num_elements, r, pc, heap>>

NextNames == NewConfigs
SpecNames == InitNames /\ [][NextNames]_vars

\* C22: each documented method name selects a method of its own: the
\* method of a config made from one of the eight coarsen names is the
\* method of no config made from another of them, and likewise for the
\* five interpolation names.
C22_DistinctMethods ==
  call.op = "config" =>
    /\ \A cm \in CoarsenNames \ {call.coarsen} :
         t8_messy_new_coarsen_config(cm, AllNames[1], 0, InputThreshold, NULL).method
           # coarsen.method
    /\ \A im \in InterpolateNames \ {call.interpolation} :
         t8_messy_new_interpolate_config(im, NULL).method # interpolation.method

(***************************************************************************)
(* The threshold predicate t8_messy_coarsen_callback, called on the family *)
(* of a chunk of 2 x 2 cells after apply_sfc, for every z_layer argument.  *)
(***************************************************************************)
PredicateInputs == {in \in ConfigInputs : in.zl = MaxZ}
PredicateConfigs ==
  {[method |-> m, tracer |-> AllNames[1], z_layer |-> zl, threshold |-> InputThreshold] :
     m \in ThresholdMethods, zl \in ZLayerArgs}
InitPredicate == InitWith(PredicateInputs, PredicateConfigs, {DefaultInterpolation})

Predicate ==
  /\ pc = "idle"
  /\ call.op # "predicate"
  /\ call' = [op |-> "predicate", lelement_id |-> 0,
              values |-> coarsen_values(data, tracer_names, 0, 4),
              ret |-> t8_messy_coarsen_callback(data, tracer_names, 0, 4)]
  /\ UNCHANGED <<chunk_vars, numbering, data, data_ids, data_adapt, data_ids_adapt,
                 md_forest, errors, errors_adapt, errors_global, errors_adapt_global,
                 md_num_elements, counter, forest, forest_adapt, last_num_elements,
                 num_elements, r, pc, heap>>

NextPredicate == ApplySfc \/ Predicate
SpecPredicate == InitPredicate /\ [][NextPredicate]_vars

\* the layers of tracer d in record e
LayerValues(e, d) == [z \in 0..(z_length - 1) |-> ValueAt(data, e, z, d)]

\* C23: the value the threshold test gets for each of the four siblings is
\* that sibling's own mean (z_layer = -1), max (-2) or min (-3) of the
\* configured tracer over all layers, and for z_layer >= 0 that sibling's
\* value in layer z_layer.
C23_PerSiblingReduction ==
  call.op = "predicate" =>
    LET d == t8_latlon_get_tracer_idx(tracer_names, coarsen.tracer)
        zl == coarsen.z_layer
    IN  \A e \in 0..3 :
          call.values[e] =
            CASE zl = -1 -> get_mean(LayerValues(call.lelement_id + e, d), z_length)
              [] zl = -2 -> get_max(LayerValues(call.lelement_id + e, d), z_length)
              [] zl = -3 -> get_min(LayerValues(call.lelement_id + e, d), z_length)
              [] OTHER -> ValueAt(data, call.lelement_id + e, zl, d)

(***************************************************************************)
(* A chunk of 8 x 8 cells whose families merge at different rounds: one    *)
(* family holds 10 and 11 and merges with an error, one rough family never *)
(* merges, every other family holds 10 alone.                              *)
(***************************************************************************)
DeepLevel == 3
DeepInputs ==
  {[L |-> DeepLevel, zl |-> zl, nt |-> nt, a |-> Int2D(10), b |-> Int2D(11),
    ma |-> Int2D(1), mb |-> Int2D(1), nvar |-> 1, lo |-> lo, rough |-> {ro}] :
     zl \in 1..MaxZ, nt \in 2..MaxTracers,
     lo \in {Pow4(DeepLevel - 2), Pow4(DeepLevel - 2) + 1},
     ro \in {Pow4(DeepLevel - 2) + 2, Pow4(DeepLevel - 2) + 3, 2 * Pow4(DeepLevel - 2) + 1}}
InitDeep == InitWith(DeepInputs, {DefaultCoarsen}, {DefaultInterpolation})
SpecDeep == InitDeep /\ [][Next]_vars

\* C24: in every round, a leaf that is not merged (one outgoing, one
\* incoming) keeps its data record, its local errors and its global
\* errors: the new buffers hold at the index of the new leaf what the old
\* buffers held at the index of the old leaf.
C24_UnmergedCopied ==
  [][pc = "replace" =>
       \A k \in 1..Len(Groups) :
         (Groups[k].num = 1 /\ Len(Groups[k].leaves) = 1) =>
           LET old == Groups[k].first
               new == k - 1
               ne == num_tracers - 1
           IN  /\ \A i \in 0..(ElementLength - 1) :
                    data'[new * ElementLength + i] = data[old * ElementLength + i]
               /\ \A d \in 0..(ne - 1) :
                    /\ errors'[new * ne + d] = errors[old * ne + d]
                    /\ errors_global'[new * ne + d] = errors_global[old * ne + d]]_vars

\* C24 witness: a round is about to copy a leaf that an earlier round
\* merged with a positive error to a smaller index
C24_Witness ==
  /\ pc = "replace"
  /\ \E k \in 1..Len(Groups) :
       /\ Groups[k].num = 1
       /\ Groups[k].first > k - 1
       /\ Gt(errors[Groups[k].first * (num_tracers - 1)], Zero)
       /\ Gt(errors_global[Groups[k].first * (num_tracers - 1)], Zero)

\* the adapt passes coarsen has run: each creates one forest object
Passes == Len(heap) - 1
\* the passes whose forest has fewer leaves than the forest they started from
ReducingPasses ==
  {i \in 1..Passes : Len(heap[i + 1].leaves) < Len(heap[i].leaves)}
\* data_ids as apply_sfc left it
EntryIds == [i \in 0..(Len(heap[md_forest].leaves) - 1) |-> heap[md_forest].leaves[i + 1].id]

\* C25: coarsen stops at the first pass that does not reduce the leaf
\* count, and that pass swaps no buffers: when it leaves its loop after k
\* reducing passes, k < 10, it has run exactly k + 1 passes and swapped
\* the buffers exactly k times; with k = 0 data_ids and the error arrays
\* are as they were on entry.
C25_PassesAndSwaps ==
  (pc \in {"exit", "done"} /\ Cardinality(ReducingPasses) < MaxRounds) =>
    LET k == Cardinality(ReducingPasses)
    IN  /\ Passes = k + 1
        /\ r = k
        /\ k = 0 => data_ids = EntryIds /\ errors = Zeros((num_tracers - 1) * Len(EntryIds))

(***************************************************************************)
(* The round group by group: t8_forest_iterate_replace calls the           *)
(* interpolation callback once per group, and the callback works on the    *)
(* memory of the coupler, old buffers and adapt buffers alike; the swap of *)
(* lines 897-917 follows the last group.  call holds the place of the      *)
(* iteration: the groups done and the index of the next incoming leaf.     *)
(***************************************************************************)
Memory ==
  [data |-> data, errors |-> errors, errors_global |-> errors_global,
   data_adapt |-> data_adapt, errors_adapt |-> errors_adapt,
   errors_adapt_global |-> errors_adapt_global]

t8_messy_interpolate_memory_inplace(mem, g, first_incoming) ==
  LET b == t8_messy_interpolate_callback2(
             [data_adapt |-> mem.data_adapt, errors_adapt |-> mem.errors_adapt,
              errors_adapt_global |-> mem.errors_adapt_global],
             mem.data, mem.errors, mem.errors_global,
             g.num, g.first, Len(g.leaves), first_incoming)
  IN  [mem EXCEPT !.data_adapt = b.data_adapt,
                  !.errors_adapt = b.errors_adapt,
                  !.errors_adapt_global = b.errors_adapt_global,
                  !.errors_global = [i \in DOMAIN mem.errors_global |->
                                       IF i \in DOMAIN b.errors_adapt_global
                                       THEN b.errors_adapt_global[i]
                                       ELSE mem.errors_global[i]]]

\* lines 347-451: the memory after one call of the callback, which assigns to
\* data_adapt, errors_adapt and errors_adapt_global alone
t8_messy_interpolate_memory(mem, g, first_incoming) ==
  LET b == t8_messy_interpolate_callback2(
             [data_adapt |-> mem.data_adapt, errors_adapt |-> mem.errors_adapt,
              errors_adapt_global |-> mem.errors_adapt_global],
             mem.data, mem.errors, mem.errors_global,
             g.num, g.first, Len(g.leaves), first_incoming)
  IN  [mem EXCEPT !.data_adapt = b.data_adapt,
                  !.errors_adapt = b.errors_adapt,
                  !.errors_adapt_global = b.errors_adapt_global]

Place == IF call.op = "replace" THEN call ELSE [op |-> "replace", k |-> 0, first_incoming |-> 0]

ReplaceGroup ==
  /\ pc = "replace"
  /\ Place.k < Len(Groups)
  /\ LET g == Groups[Place.k + 1]
         mem == t8_messy_interpolate_memory(Memory, g, Place.first_incoming)
     IN  /\ data' = mem.data
         /\ errors' = mem.errors
         /\ errors_global' = mem.errors_global
         /\ data_adapt' = mem.data_adapt
         /\ errors_adapt' = mem.errors_adapt
         /\ errors_adapt_global' = mem.errors_adapt_global
         /\ call' = [op |-> "replace", k |-> Place.k + 1,
                     first_incoming |-> Place.first_incoming + Len(g.leaves)]
  /\ UNCHANGED <<chunk_vars, numbering, data_ids, data_ids_adapt, md_forest,
                 md_num_elements, counter, forest, forest_adapt, last_num_elements,
                 num_elements, r, pc, heap>>

\* lines 897-917
ReplaceSwap ==
  /\ pc = "replace"
  /\ Place.k = Len(Groups)
  /\ data_ids' = data_ids_adapt
  /\ data' = data_adapt
  /\ errors' = errors_adapt
  /\ errors_global' = errors_adapt_global
  /\ data_ids_adapt' = NULL
  /\ data_adapt' = NULL
  /\ errors_adapt' = NULL
  /\ errors_adapt_global' = NULL
  /\ heap' = Unref(heap, forest)
  /\ forest' = forest_adapt
  /\ r' = r + 1
  /\ pc' = "loop"
  /\ call' = NoCall
  /\ UNCHANGED <<chunk_vars, numbering, md_forest, md_num_elements, counter,
                 forest_adapt, last_num_elements, num_elements>>

BufferInputs == {in \in Inputs : in.zl = 1 /\ in.nt = 2}
InitBuffers == InitWith(BufferInputs, {DefaultCoarsen}, {DefaultInterpolation})
NextBuffers ==
  ApplySfc \/ CoarsenBegin \/ AdaptStep \/ ReplaceGroup \/ ReplaceSwap \/ CoarsenEnd
SpecBuffers == InitBuffers /\ [][NextBuffers]_vars

AdaptAbsent ==
  /\ data_adapt = NULL
  /\ data_ids_adapt = NULL
  /\ errors_adapt = NULL
  /\ errors_adapt_global = NULL

\* C26: while the callback runs in a round, data, errors and errors_global
\* keep their values and data_adapt, errors_adapt, errors_adapt_global
\* alone are written; only the swap replaces the old buffers, by the adapt
\* buffers as the callback left them; on entry to coarsen and on every
\* return from it the four adapt buffers are absent.
C26_DoubleBuffering ==
  [][/\ (pc = "replace" /\ pc' = "replace") =>
          /\ UNCHANGED <<data, data_ids, errors, errors_global, data_ids_adapt>>
          /\ DOMAIN data_adapt' = DOMAIN data_adapt
     /\ (pc = "replace" /\ pc' # "replace") =>
          /\ data' = data_adapt
          /\ data_ids' = data_ids_adapt
          /\ errors' = errors_adapt
          /\ errors_global' = errors_adapt_global
     /\ (pc \in {"init", "idle"} => AdaptAbsent)
     /\ (pc' \in {"idle", "loop", "exit", "done"} => AdaptAbsent')]_vars

\* C26 witness: in the middle of a round the callback has filled a part of
\* the adapt buffers with merged values, and the old buffers are in place
C26_Witness ==
  /\ pc = "replace"
  /\ call.op = "replace"
  /\ call.k >= 1
  /\ call.k < Len(Groups)
  /\ \E i \in DOMAIN data_adapt : data_adapt[i] # Zero
  /\ \E i \in DOMAIN errors_adapt : Gt(errors_adapt[i], Zero)
  /\ Cardinality(DOMAIN data) > Cardinality(DOMAIN data_adapt)

(***************************************************************************)
(* The exhaustion of the rounds.  The loop of line 872 runs at most 10     *)
(* rounds, which a chunk needs 10 levels to use up; ShortRounds is the     *)
(* same loop with a cap that chunks of 4 x 4 cells use up.                 *)
(***************************************************************************)
ShortRounds == 2
AdaptStepShort == AdaptStepFor(ShortRounds)
NextShort == ApplySfc \/ CoarsenBegin \/ AdaptStepShort \/ Replace \/ CoarsenEnd
SpecShort == Init /\ [][NextShort]_vars

\* C27: on every exit path of coarsen no forest is unreferenced after its
\* reference count has reached zero: no count ever falls below zero, the
\* two final unrefs work on two different forests, and after coarsen the
\* coupler's own forest handle holds a live forest.
C27_ForestRefs ==
  /\ \A h \in 1..Len(heap) : heap[h].rc >= 0
  /\ pc = "exit" => forest_adapt # forest
  /\ pc \in {"done", "aborted"} => heap[md_forest].rc >= 1

(***************************************************************************)
(* coarsen called again after it has returned.  It starts from the forest  *)
(* handle of the coupler: its predicate reads the record of every leaf of  *)
(* that forest.  When the forest has more leaves than data has records the *)
(* reads leave the buffer and nothing is known of what follows: pc is      *)
(* "stray".                                                                *)
(***************************************************************************)
CoarsenAgain ==
  /\ pc = "done"
  /\ numbering = "MORTON"
  /\ counter < MaxCoarsens
  /\ IF t8_forest_get_num_element(md_forest) * ElementLength <= Cardinality(DOMAIN data)
     THEN /\ forest' = md_forest
          /\ heap' = Ref(heap, md_forest)
          /\ last_num_elements' = 0
          /\ num_elements' = t8_forest_get_num_element(md_forest)
          /\ errors' = Zeros(num_elements' * (num_tracers - 1))
          /\ errors_global' = Zeros(num_elements' * (num_tracers - 1))
          /\ r' = 0
          /\ pc' = "loop"
     ELSE /\ pc' = "stray"
          /\ UNCHANGED <<forest, heap, last_num_elements, num_elements, errors,
                         errors_global, r>>
  /\ UNCHANGED <<chunk_vars, io_vars, numbering, data, data_ids, data_adapt, data_ids_adapt,
                 md_forest, errors_adapt, errors_adapt_global, md_num_elements,
                 counter, forest_adapt>>

InitAgain == InitWith(BufferInputs, {DefaultCoarsen}, {DefaultInterpolation})
NextAgain == Next \/ CoarsenAgain
SpecAgain == InitAgain /\ [][NextAgain]_vars

\* C28: after coarsen has returned the forest of the coupler has as many
\* leaves as data, errors and errors_global have records, so that a
\* further coarsen reads no record outside the buffers.
C28_ForestMatchesData ==
  /\ pc = "done" =>
       /\ t8_forest_get_num_element(md_forest) = NumRecords
       /\ Cardinality(DOMAIN errors) = NumRecords * (num_tracers - 1)
       /\ Cardinality(DOMAIN errors_global) = NumRecords * (num_tracers - 1)
  /\ pc # "stray"

\* C29: the predicate merges a family only when the interpolation's own
\* error ratios are within the tolerance: once a round is completed every
\* entry of errors is at most 0.10, and every entry of errors_global is at
\* most 0.10 times the number of completed rounds.
C29_ErrorsWithinTolerance ==
  (pc \in {"loop", "exit", "done"} /\ r >= 1) =>
    /\ \A i \in DOMAIN errors : Le(errors[i], Rat(TolNum, TolDen))
    /\ \A i \in DOMAIN errors_global : Le(errors_global[i], Rat(TolNum * r, TolDen))

\* C29 witness: after two rounds a leaf carries the error of its last merge
\* and a larger accumulated error
C29_Witness ==
  /\ pc = "loop"
  /\ r = 2
  /\ \E i \in DOMAIN errors :
       /\ Gt(errors[i], Zero)
       /\ Gt(errors_global[i], errors[i])

(***************************************************************************)
(* The linear id of a prism (t8_dprism_bits.c).                            *)
(*                                                                         *)
(* A uint64_t is the set of the positions of its one bits, so that ids up  *)
(* to 8^21 = 2^63 can be written down.  An int is the same set of its      *)
(* value sign-extended to 64 bits, the form in which it enters every       *)
(* expression with a uint64_t operand.                                     *)
(***************************************************************************)
T8_DPRISM_MAXLEVEL == 21
T8_DPRISM_CHILDREN == 8
T8_DTRI_CHILDREN == 4
T8_DLINE_CHILDREN == 2
\* the width of int
IntWidth == 32
\* levels whose ids are all drawn
MaxFullLevel == 2

WordBits == 0..63
\* the uint64_t of a small natural number
U64(n) == {b \in 0..30 : (n \div 2^b) % 2 = 1}
Shl(x, k) == {b + k : b \in x} \cap WordBits
Shr(x, k) == {b - k : b \in {c \in x : c >= k}}

\* x + y modulo 2^64, by carries
RECURSIVE AddU64(_, _)
AddU64(x, y) == IF y = {} THEN x ELSE AddU64((x \ y) \cup (y \ x), Shl(x \cap y, 1))

\* x * y modulo 2^64
RECURSIVE MulU64(_, _)
MulU64(x, y) == IF y = {} THEN {} ELSE LET b == CHOOSE c \in y : TRUE IN AddU64(Shl(x, b), MulU64(x, y \ {b}))

\* x / y and x % y; every divisor of the two functions is a power of two
DivU64(x, y) == Shr(x, CHOOSE k \in y : TRUE)
ModU64(x, y) == {b \in x : b < (CHOOSE k \in y : TRUE)}

\* x < y on uint64_t: the highest bit in which they differ is a bit of y
LtU64(x, y) == \E b \in y \ x : \A c \in x \ y : c < b

\* The outcomes of signed overflow, which is undefined: the low 32 bits of
\* the result, sign-extended ("wrap"), or the result as computed in a
\* 64-bit register ("wide").
Overflows == {"wrap", "wide"}
IntResult(x, ovf) == IF (\A b \in x : b < IntWidth - 1) \/ ovf = "wide" THEN x ELSE LET low == {b \in x : b < IntWidth} IN IF (IntWidth - 1) \in low THEN low \cup (IntWidth..63) ELSE low

\* the multiplications of sc_intpow that are left, result being their product
\* so far
RECURSIVE sc_intpow_loop(_, _, _, _)
sc_intpow_loop(base, power, result, ovf) ==
  IF power = 0
    THEN result
    ELSE LET next == IntResult(MulU64(result, U64(base)), ovf)
         IN  IF next = next THEN sc_intpow_loop(base, power - 1, next, ovf) ELSE next

\* int sc_intpow (int base, int power)
sc_intpow(base, power, ovf) == sc_intpow_loop(base, power, U64(1), ovf)

\* The triangle and the line of a prism are known by their level and their
\* own linear id: their linear-id functions are taken to round-trip.
t8_dtri_init_linear_id(id, level) == [level |-> level, id |-> id]
t8_dline_init_linear_id(level, id) == [level |-> level, id |-> id]
t8_dtri_linear_id(t, level) == t.id
t8_dline_linear_id(l, level) == l.id

\* The loop of t8_dprism_init_linear_id from round i on; v holds the local
\* variables.  (next = next has TLC compute the variables of a round
\* before the next round.)
RECURSIVE init_linear_id_loop(_, _, _, _)
init_linear_id_loop(i, level, v, ovf) ==
  IF i > level
    THEN v
    ELSE LET digit == ModU64(v.id, U64(T8_DPRISM_CHILDREN))
             tri == MulU64(ModU64(digit, U64(T8_DTRI_CHILDREN)), v.triangles_of_size_i)
             line == MulU64(DivU64(digit, U64(T8_DTRI_CHILDREN)),
                            sc_intpow(T8_DLINE_CHILDREN, i, ovf))
             next == [id |-> DivU64(v.id, U64(T8_DPRISM_CHILDREN)),
                      tri_id |-> AddU64(v.tri_id, tri),
                      line_id |-> AddU64(v.line_id, line),
                      triangles_of_size_i |->
                        IntResult(MulU64(v.triangles_of_size_i, U64(T8_DTRI_CHILDREN)), ovf)]
         IN  IF next = next THEN init_linear_id_loop(i + 1, level, next, ovf) ELSE next

\* the prism of level and id
t8_dprism_init_linear_id(level, id, ovf) ==
  LET v == init_linear_id_loop(0, level, [id |-> id, tri_id |-> {}, line_id |-> {},
                                          triangles_of_size_i |-> U64(1)], ovf)
  IN  [tri |-> t8_dtri_init_linear_id(v.tri_id, level),
       line |-> t8_dline_init_linear_id(level, v.line_id)]

\* T8_ASSERT (id < sc_intpow (T8_DPRISM_CHILDREN, level))
init_linear_id_assert(level, id, ovf) == LtU64(id, sc_intpow(T8_DPRISM_CHILDREN, level, ovf))

\* the first loop of t8_dprism_linear_id: the triangle digits
RECURSIVE linear_id_tri_loop(_, _, _, _)
linear_id_tri_loop(i, level, v, ovf) ==
  IF i >= level
    THEN v
    ELSE LET next == [id |-> AddU64(v.id, MulU64(ModU64(v.tri_id, U64(T8_DTRI_CHILDREN)),
                                                 v.prisms_of_size_i)),
                      tri_id |-> DivU64(v.tri_id, U64(T8_DTRI_CHILDREN)),
                      prisms_of_size_i |->
                        IntResult(MulU64(v.prisms_of_size_i, U64(T8_DPRISM_CHILDREN)), ovf)]
         IN  IF next = next THEN linear_id_tri_loop(i + 1, level, next, ovf) ELSE next

\* the second loop of t8_dprism_linear_id: the planes of the line id
RECURSIVE linear_id_line_loop(_, _)
linear_id_line_loop(i, v) ==
  IF i < 0
    THEN v
    ELSE LET next == [id |-> AddU64(v.id, MulU64(DivU64(v.line_id, v.line_level),
                                                 v.prism_shift)),
                      line_id |-> ModU64(v.line_id, v.line_level),
                      prism_shift |-> IF v.prism_shift = {} THEN {}
                                      ELSE DivU64(v.prism_shift, U64(T8_DPRISM_CHILDREN)),
                      line_level |-> DivU64(v.line_level, U64(T8_DLINE_CHILDREN))]
         IN  IF next = next THEN linear_id_line_loop(i - 1, next) ELSE next

\* the linear id of prism p at level
t8_dprism_linear_id(p, level, ovf) ==
  IF level = 0
    THEN {}
    ELSE LET line_level == sc_intpow(T8_DLINE_CHILDREN, level - 1, ovf)
             prism_shift == IntResult(MulU64(U64(T8_DPRISM_CHILDREN \div 2),
                                             sc_intpow(T8_DPRISM_CHILDREN, level - 1, ovf)), ovf)
             tri == linear_id_tri_loop(0, level,
                                       [id |-> {}, tri_id |-> t8_dtri_linear_id(p.tri, level),
                                        prisms_of_size_i |-> U64(1)], ovf)
             line == linear_id_line_loop(level - 1,
                                         [id |-> tri.id,
                                          line_id |-> t8_dline_linear_id(p.line, level),
                                          prism_shift |-> prism_shift,
                                          line_level |-> line_level])
         IN  line.id

\* the ids drawn at a level: all of them up to MaxFullLevel, beyond it
\* those with any first and any last base-8 digit
PrismIds(level) ==
  IF level <= MaxFullLevel
    THEN {U64(n) : n \in 0..(Pow2(3 * level) - 1)}
    ELSE {Shl(U64(hi), 3 * (level - 1)) \cup U64(lo) :
            hi \in 0..(T8_DPRISM_CHILDREN - 1), lo \in 0..(T8_DPRISM_CHILDREN - 1)}

\* the elements to be set: a level within the limit and an id below 8^level
PrismCalls ==
  UNION {{[op |-> "element", level |-> level, id |-> id] : id \in PrismIds(level)} :
           level \in 0..T8_DPRISM_MAXLEVEL}

\* an element to be set, beside a coupler that is left alone
InitPrism ==
  InitCalled({in \in ConfigInputs : in.a = in.b /\ in.a = Zero /\ in.zl = 1 /\ in.nt = 2},
             {NullConfig}, {NullConfig}, PrismCalls)

\* t8_element_set_linear_id (elem, level, id)
t8_element_set_linear_id ==
  /\ call.op = "element"
  /\ pc = "init"
  /\ \E ovf \in Overflows :
       /\ call' = [op |-> "set_linear_id", level |-> call.level, id |-> call.id,
                   p |-> t8_dprism_init_linear_id(call.level, call.id, ovf)]
       /\ pc' \in (IF init_linear_id_assert(call.level, call.id, ovf)
                     THEN {"init"} ELSE {"init", "aborted"})
  /\ UNCHANGED <<x_length, y_length, z_length, num_tracers, missing_value, max_level,
                 tracer_names, shape, x_axis, y_axis, z_axis, coarsen, interpolation,
                 numbering, data, data_ids, data_adapt, data_ids_adapt, md_forest,
                 errors, errors_adapt, errors_global, errors_adapt_global,
                 md_num_elements, counter, forest, forest_adapt,
                 last_num_elements, num_elements, r, heap>>

\* t8_element_get_linear_id (elem, level) of the element just set
t8_element_get_linear_id ==
  /\ call.op = "set_linear_id"
  /\ pc = "init"
  /\ \E ovf \in Overflows :
       call' = [op |-> "get_linear_id", level |-> call.level, id |-> call.id, p |-> call.p,
                ret |-> t8_dprism_linear_id(call.p, call.level, ovf)]
  /\ UNCHANGED <<x_length, y_length, z_length, num_tracers, missing_value, max_level,
                 tracer_names, shape, x_axis, y_axis, z_axis, coarsen, interpolation,
                 numbering, data, data_ids, data_adapt, data_ids_adapt, md_forest,
                 errors, errors_adapt, errors_global, errors_adapt_global,
                 md_num_elements, counter, forest, forest_adapt,
                 last_num_elements, num_elements, r, pc, heap>>

NextPrism == t8_element_set_linear_id \/ t8_element_get_linear_id
SpecPrism == InitPrism /\ [][NextPrism]_vars

\* C30: for every level up to T8_DPRISM_MAXLEVEL and every id below 8^level,
\* setting a prism from the id completes with a line and a triangle of the
\* same level, and the linear id of that prism at the level is the id again.
C30_PrismRoundTrip ==
  /\ call.op \in {"set_linear_id", "get_linear_id"} =>
       /\ pc # "aborted"
       /\ call.p.line.level = call.p.tri.level
  /\ call.op = "get_linear_id" => call.ret = call.id

====
